---------------------------- MODULE Spec2Model ----------------------------
(***************************************************************************)
(* Model of the Tran-API document pipeline: the unified Document schema    *)
(* (src/schemas/document.py), the text utilities (src/utils/text_utils.py),*)
(* the extractors' table construction, the HTML / Markdown / DOCX          *)
(* converters and the DocumentAgent orchestrator (src/agent.py).           *)
(*                                                                         *)
(* Conventions                                                             *)
(*   - a Python str is a sequence of one-character strings; in converter   *)
(*     output, markup the code writes literally is kept apart from the     *)
(*     characters that came from the document (see the converters);        *)
(*   - Optional[T] is a sequence: << >> is None, <<v>> is the value v;     *)
(*   - a pydantic object is a record; a block carries its Python class in  *)
(*     the field cls, which is not a pydantic field and is not serialized. *)
(***************************************************************************)
EXTENDS Integers, Sequences, FiniteSets, TLC

VARIABLES
    document,     \* DocumentAgent._document
    source_path,  \* DocumentAgent._source_path
    written,      \* the files the last call wrote: path -> content
    clock,        \* the wall clock the DOCX package writer stamps members with
    result,       \* outcome of the agent's last call: error or return value
    input,        \* argument of the library function under check
    output        \* its return value (or the fact that it has not run yet)

vars == <<document, source_path, written, clock, result, input, output>>
agentVars == <<document, source_path, written, clock, result>>

---------------------------------------------------------------------------
(* Bounds of the model *)

MaxTextLen == 3
MaxBlocks == 2     \* blocks on a page of a generated document
MaxTableLines == 3 \* lines of a Markdown pipe table
MaxClock == 1      \* ticks of the clock, two seconds each
MaxFileLines == 3  \* lines of a plain-text file
MaxMdLines == 4    \* lines of a Markdown file
MaxTableRows == 3  \* rows of a converted table
MaxRowCells == 2   \* cells of a row of a converted table
MaxOrderBlocks == 3 \* blocks of the first page of an ordered document
MaxSubElements == 2 \* images, links and tables of a PDF page
MaxSteps == 6      \* steps of one call of extract or save
MaxPages == 3      \* pages of a document grown by add_page
MaxPageNumber == 3 \* page numbers handed to Page(...)
MaxCalls == 3      \* calls the two agents make together

---------------------------------------------------------------------------
(* Generic helpers *)

None == << >>
Some(v) == <<v>>
IsNone(o) == o = << >>
Truthy(o) == o # << >> /\ o[1] # << >>   \* Python truthiness of Optional[str]

SeqsUpTo(S, n) == UNION {[1..k -> S] : k \in 0..n}

RECURSIVE Concat(_)
Concat(ss) == IF ss = << >> THEN << >> ELSE Head(ss) \o Concat(Tail(ss))

RECURSIVE Join(_, _)
Join(sep, parts) ==
    IF parts = << >> THEN << >>
    ELSE IF Len(parts) = 1 THEN parts[1]
    ELSE parts[1] \o sep \o Join(sep, Tail(parts))

---------------------------------------------------------------------------
(* src/utils/text_utils.py: detect_text_direction *)

\* The characters the model draws text from, with their Unicode
\* bidirectional category (unicodedata.bidirectional).
BidiAlphabet == {"a", "HE_ALEF", "AR_BEH", "AR_ONE", "1", " "}

BidiCategory(c) ==
    CASE c = "a"       -> "L"
      [] c = "HE_ALEF" -> "R"
      [] c = "AR_BEH"  -> "AL"
      [] c = "AR_ONE"  -> "AN"
      [] c = "1"       -> "EN"
      [] c = " "       -> "WS"
      [] OTHER         -> "ON"

\* The counting loop: one pass over the characters.
RECURSIVE CountDirection(_, _, _)
CountDirection(text, rtl_chars, ltr_chars) ==
    IF text = << >> THEN [rtl |-> rtl_chars, ltr |-> ltr_chars]
    ELSE LET category == BidiCategory(Head(text)) IN
         IF category \in {"R", "AL", "AN"}
         THEN CountDirection(Tail(text), rtl_chars + 1, ltr_chars)
         ELSE IF category = "L"
         THEN CountDirection(Tail(text), rtl_chars, ltr_chars + 1)
         ELSE CountDirection(Tail(text), rtl_chars, ltr_chars)

detect_text_direction_tie_rtl(text) ==
    IF text = << >> THEN "ltr"
    ELSE LET n == CountDirection(text, 0, 0) IN
         IF n.rtl >= n.ltr THEN "rtl" ELSE "ltr"

detect_text_direction(text) ==
    IF text = << >> THEN "ltr"
    ELSE LET n == CountDirection(text, 0, 0) IN
         IF n.rtl > n.ltr THEN "rtl" ELSE "ltr"

---------------------------------------------------------------------------
(* src/utils/text_utils.py: clean_text, and the str methods it is built on *)

Whitespace == {" ", "\t", "\n"}

\* str.split(sep) for a one-character separator out of seps: empty pieces kept.
RECURSIVE SplitOn(_, _)
SplitOn(text, seps) ==
    IF text = << >> THEN << << >> >>
    ELSE LET rest == SplitOn(Tail(text), seps) IN
         IF Head(text) \in seps THEN << << >> >> \o rest
         ELSE << <<Head(text)>> \o rest[1] >> \o Tail(rest)

\* str.strip(chars)
RECURSIVE Strip(_, _)
Strip(text, chars) ==
    IF text = << >> THEN << >>
    ELSE IF Head(text) \in chars THEN Strip(Tail(text), chars)
    ELSE IF text[Len(text)] \in chars
    THEN Strip(SubSeq(text, 1, Len(text) - 1), chars)
    ELSE text

\* ' '.join(line.split()): runs of whitespace become one space.
CollapseSpaces(line) ==
    Join(<<" ">>, SelectSeq(SplitOn(line, Whitespace \ {"\n"}),
                            LAMBDA w : w # << >>))

\* clean_text(text, preserve_newlines=True); NFKC normalization leaves the
\* characters of the model unchanged.
clean_text(text) ==
    IF text = << >> THEN << >>
    ELSE LET lines == SplitOn(text, {"\n"}) IN
         Strip(Join(<<"\n">>, [i \in DOMAIN lines |-> CollapseSpaces(lines[i])]),
               Whitespace)

---------------------------------------------------------------------------
(* Character classes of Python's str methods and of the re module *)

LowerLetters ==
    {"a", "b", "c", "d", "e", "f", "g", "h", "i", "j", "k", "l", "m", "n", "o",
     "p", "q", "r", "s", "t", "u", "v", "w", "x", "y", "z"}
UpperLetters ==
    {"A", "B", "C", "D", "E", "F", "G", "H", "I", "J", "K", "L", "M", "N", "O",
     "P", "Q", "R", "S", "T", "U", "V", "W", "X", "Y", "Z"}
Digits == {"0", "1", "2", "3", "4", "5", "6", "7", "8", "9"}
HexDigits == Digits \cup {"a", "b", "c", "d", "e", "f", "A", "B", "C", "D", "E", "F"}
\* \w: letters of any script, digits (AR_ONE is a digit), the underscore
WordChars ==
    LowerLetters \cup UpperLetters \cup Digits
        \cup {"_", "HE_ALEF", "AR_BEH", "AR_ONE"}

\* str.isupper(): some cased character, and no lower-case one
isupper(text) ==
    /\ \E i \in DOMAIN text : text[i] \in UpperLetters
    /\ \A i \in DOMAIN text : text[i] \notin LowerLetters

\* The text after its longest prefix of characters out of chars
RECURSIVE SkipWhile(_, _)
SkipWhile(text, chars) ==
    IF text # << >> /\ Head(text) \in chars THEN SkipWhile(Tail(text), chars)
    ELSE text

StartsWith(text, prefix) ==
    Len(text) >= Len(prefix) /\ SubSeq(text, 1, Len(prefix)) = prefix

---------------------------------------------------------------------------
(* src/utils/text_utils.py: split_into_paragraphs, count_words, extract_urls *)

\* re.split(r'\n\s*\n', text): a separator starts at a line break and runs
\* to the last line break of the white space that follows it.
RECURSIVE SplitBlankLines(_)
SplitBlankLines(text) ==
    LET RunEnd(i) == Len(text) - Len(SkipWhile(SubSeq(text, i + 1, Len(text)),
                                               Whitespace))
        Breaks(i) == {k \in (i + 1)..RunEnd(i) : text[k] = "\n"}
        starts == {i \in DOMAIN text : text[i] = "\n" /\ Breaks(i) # {}}
    IN  IF starts = {} THEN <<text>>
        ELSE LET i == CHOOSE a \in starts : \A b \in starts : a <= b
                 k == CHOOSE a \in Breaks(i) : \A b \in Breaks(i) : b <= a
             IN  <<SubSeq(text, 1, i - 1)>>
                 \o SplitBlankLines(SubSeq(text, k + 1, Len(text)))

split_into_paragraphs(text) ==
    IF text = << >> THEN << >>
    ELSE LET pieces == SplitBlankLines(text)
             stripped == [i \in DOMAIN pieces |-> Strip(pieces[i], Whitespace)]
         IN  SelectSeq(stripped, LAMBDA piece : piece # << >>)

\* str.split(): the words between runs of white space
Words(text) == SelectSeq(SplitOn(text, Whitespace), LAMBDA w : w # << >>)

count_words(text) == IF text = << >> THEN 0 ELSE Len(Words(text))

\* Where the URL pattern matches at the start of text: the length of the
\* match, 0 for none.  After http://, https:// or www. comes at least one
\* of [-\w.] or %XX, and then everything up to the next white space.
UrlMatchLen(text) ==
    LET prefixes == {<<"h", "t", "t", "p", "s", ":", "/", "/">>,
                     <<"h", "t", "t", "p", ":", "/", "/">>,
                     <<"w", "w", "w", ".">>}
        found == {prefix \in prefixes : StartsWith(text, prefix)}
    IN  IF found = {} THEN 0
        ELSE LET prefix == CHOOSE f \in found : TRUE
                 rest == SubSeq(text, Len(prefix) + 1, Len(text))
                 host == /\ rest # << >>
                         /\ \/ rest[1] \in WordChars \cup {"-", "."}
                            \/ /\ Len(rest) >= 3 /\ rest[1] = "%"
                               /\ rest[2] \in HexDigits /\ rest[3] \in HexDigits
             IN  IF host
                 THEN Len(text) - Len(SkipWhile(text, {c \in {text[i] : i \in DOMAIN text} :
                                                          c \notin Whitespace}))
                 ELSE 0

\* finditer from offset on: (url, start, end) of every match, left to right
RECURSIVE FindUrls(_, _)
FindUrls(text, offset) ==
    IF offset >= Len(text) THEN << >>
    ELSE LET n == UrlMatchLen(SubSeq(text, offset + 1, Len(text)))
             matched == SubSeq(text, offset + 1, offset + n)
         IN  IF n = 0 THEN FindUrls(text, offset + 1)
             ELSE << [url |-> IF StartsWith(matched, <<"h", "t", "t", "p">>)
                              THEN matched
                              ELSE <<"h", "t", "t", "p", "s", ":", "/", "/">>
                                   \o matched,
                      start |-> offset, end |-> offset + n] >>
                  \o FindUrls(text, offset + n)

extract_urls(text) == IF text = << >> THEN << >> ELSE FindUrls(text, 0)

---------------------------------------------------------------------------
(* src/schemas/document.py: the unified document schema *)

TextDirections == {"ltr", "rtl", "auto"}

BlockTypes ==
    {"heading", "paragraph", "image", "table", "list", "link", "code",
     "quote", "positioned_text"}

\* Block = Union[...]: the member classes in the order of the Union.
BlockUnion ==
    <<"HeadingBlock", "ParagraphBlock", "ImageBlock", "TableBlock",
      "ListBlock", "LinkBlock", "PositionedTextBlock">>

\* Field(default=...) / Field(default_factory=...) of every model class.
Defaults(cls) ==
    CASE cls = "BoundingBox" -> [x |-> 0, y |-> 0, width |-> 0, height |-> 0]
      [] cls = "TextStyle" ->
            [font_family |-> None, font_size |-> 12, font_weight |-> "normal",
             font_style |-> "normal", color |-> None, background_color |-> None,
             underline |-> FALSE, strikethrough |-> FALSE]
      [] cls = "Link" -> [text |-> << >>, start_index |-> None, end_index |-> None]
      [] cls = "Metadata" ->
            [title |-> None, author |-> None, created_date |-> None,
             modified_date |-> None, subject |-> None, keywords |-> << >>,
             language |-> None, page_count |-> None, word_count |-> None,
             source_format |-> None, source_filename |-> None]
      [] cls = "HeadingBlock" ->
            [type |-> "heading", direction |-> "auto", position_hint |-> None,
             links |-> << >>]
      [] cls = "ParagraphBlock" ->
            [type |-> "paragraph", direction |-> "auto", position_hint |-> None,
             links |-> << >>, is_bold |-> FALSE, is_italic |-> FALSE]
      [] cls = "ImageBlock" ->
            [type |-> "image", direction |-> "auto", position_hint |-> None,
             caption |-> None, alt_text |-> None, image_data |-> None,
             image_path |-> None, image_format |-> None, width |-> None,
             height |-> None]
      [] cls = "TableCell" ->
            [content |-> << >>, is_header |-> FALSE, colspan |-> 1, rowspan |-> 1,
             links |-> << >>]
      [] cls = "TableRow" -> [cells |-> << >>, is_header_row |-> FALSE]
      [] cls = "TableBlock" ->
            [type |-> "table", direction |-> "auto", position_hint |-> None,
             rows |-> << >>, caption |-> None, has_header |-> FALSE,
             column_count |-> 0, row_count |-> 0]
      [] cls = "ListBlock" ->
            [type |-> "list", direction |-> "auto", position_hint |-> None,
             items |-> << >>, is_ordered |-> FALSE, links |-> << >>]
      [] cls = "LinkBlock" ->
            [type |-> "link", direction |-> "auto", position_hint |-> None]
      [] cls = "PositionedTextBlock" ->
            [type |-> "positioned_text", direction |-> "auto",
             position_hint |-> None,
             bbox |-> [cls |-> "BoundingBox", x |-> 0, y |-> 0, width |-> 0,
                       height |-> 0],
             style |-> [cls |-> "TextStyle", font_family |-> None,
                        font_size |-> 12, font_weight |-> "normal",
                        font_style |-> "normal", color |-> None,
                        background_color |-> None, underline |-> FALSE,
                        strikethrough |-> FALSE],
             confidence |-> 100, language |-> None]
      [] cls = "Page" -> [title |-> None, blocks |-> << >>, direction |-> "auto"]
      [] cls = "Document" ->
            [title |-> None,
             metadata |-> [cls |-> "Metadata", title |-> None, author |-> None,
                           created_date |-> None, modified_date |-> None,
                           subject |-> None, keywords |-> << >>,
                           language |-> None, page_count |-> None,
                           word_count |-> None, source_format |-> None,
                           source_filename |-> None],
             pages |-> << >>, direction |-> "auto"]

\* The fields declared without a default.
Required(cls) ==
    CASE cls = "Link" -> {"url"}
      [] cls = "HeadingBlock" -> {"level", "text"}
      [] cls = "ParagraphBlock" -> {"text"}
      [] cls = "ImageBlock" -> {"image_id"}
      [] cls = "LinkBlock" -> {"text", "url"}
      [] cls = "PositionedTextBlock" -> {"text"}
      [] cls = "Page" -> {"page_number"}
      [] OTHER -> {}

FieldsOf(cls) == DOMAIN Defaults(cls) \cup Required(cls)

\* The class of the elements of a list field ("" when the field is no list
\* of models); "Block" stands for the Union.
ListOf(cls, f) ==
    CASE f = "links" /\ cls \in {"HeadingBlock", "ParagraphBlock", "ListBlock",
                                 "TableCell"} -> "Link"
      [] f = "rows" /\ cls = "TableBlock" -> "TableRow"
      [] f = "cells" /\ cls = "TableRow" -> "TableCell"
      [] f = "blocks" /\ cls = "Page" -> "Block"
      [] f = "pages" /\ cls = "Document" -> "Page"
      [] OTHER -> ""

\* The class of a field that holds one nested model ("" otherwise).
ModelOf(cls, f) ==
    CASE f = "bbox" /\ cls = "PositionedTextBlock" -> "BoundingBox"
      [] f = "style" /\ cls = "PositionedTextBlock" -> "TextStyle"
      [] f = "metadata" /\ cls = "Document" -> "Metadata"
      [] OTHER -> ""

\* Field(ge=..., le=...) and the enum-typed fields.
Constraint(cls, f, v) ==
    CASE f = "level" -> v \in 1..6
      [] f = "confidence" -> v \in 0..100      \* percent of the [0, 1] range
      [] f \in {"colspan", "rowspan", "page_number"} -> v >= 1
      [] f \in {"column_count", "row_count"} -> v >= 0
      [] f = "type" -> v \in BlockTypes
      [] f = "direction" -> v \in TextDirections
      [] OTHER -> TRUE

\* cls(**kw): the keyword constructor of a model class.
New(cls, kw) == [cls |-> cls] @@ kw @@ Defaults(cls)

---------------------------------------------------------------------------
(* src/schemas/document.py: to_json / from_json.  A JSON document is the   *)
(* tree of objects model_dump_json writes: every declared field of every   *)
(* object, and nothing that names the Python class of a block.             *)

RECURSIVE SumFun(_)
SumFun(fn) ==
    IF DOMAIN fn = {} THEN 0
    ELSE LET k == CHOOSE k \in DOMAIN fn : TRUE IN
         fn[k] + SumFun([j \in DOMAIN fn \ {k} |-> fn[j]])

\* model_dump: the fields of obj, nested models dumped the same way.
RECURSIVE Dump(_)
Dump(obj) ==
    [f \in DOMAIN obj \ {"cls"} |->
        IF ListOf(obj.cls, f) # ""
        THEN [i \in DOMAIN obj[f] |-> Dump(obj[f][i])]
        ELSE IF ModelOf(obj.cls, f) # "" THEN Dump(obj[f])
        ELSE obj[f]]

RECURSIVE Validate(_, _)

\* A Union validated left to right, the first member that validates wins.
LeftToRightUnion(obj) ==
    LET cand == [i \in DOMAIN BlockUnion |-> Validate(BlockUnion[i], obj)]
        valid == {i \in DOMAIN BlockUnion : cand[i].ok}
    IN  IF valid = {} THEN [ok |-> FALSE]
        ELSE cand[CHOOSE i \in valid : \A j \in valid : i <= j]

\* pydantic's smart Union of model classes: every member is tried, the
\* member that validates with the most fields set wins, the leftmost on a tie.
SmartUnion(obj) ==
    LET cand == [i \in DOMAIN BlockUnion |-> Validate(BlockUnion[i], obj)]
        valid == {i \in DOMAIN BlockUnion : cand[i].ok}
    IN  IF valid = {} THEN [ok |-> FALSE]
        ELSE cand[CHOOSE i \in valid : \A j \in valid :
                     \/ cand[j].n < cand[i].n
                     \/ cand[j].n = cand[i].n /\ i <= j]

\* model_validate of obj as class cls: missing required fields and violated
\* constraints fail, missing optional fields take their default, keys that
\* are no field of cls are ignored.  n counts the fields set from obj.
Validate(cls, obj) ==
    IF cls = "Block" THEN SmartUnion(obj)
    ELSE
    LET present == FieldsOf(cls) \cap DOMAIN obj
        sub == [f \in present |->
                 IF ListOf(cls, f) # ""
                 THEN LET each == [i \in DOMAIN obj[f] |->
                                      Validate(ListOf(cls, f), obj[f][i])]
                      IN  IF \A i \in DOMAIN each : each[i].ok
                          THEN [ok |-> TRUE,
                                value |-> [i \in DOMAIN each |-> each[i].value],
                                n |-> SumFun([i \in DOMAIN each |-> each[i].n])]
                          ELSE [ok |-> FALSE]
                 ELSE IF ModelOf(cls, f) # ""
                 THEN Validate(ModelOf(cls, f), obj[f])
                 ELSE [ok |-> Constraint(cls, f, obj[f]), value |-> obj[f],
                       n |-> 0]]
    IN  IF Required(cls) \subseteq DOMAIN obj /\ \A f \in present : sub[f].ok
        THEN [ok |-> TRUE,
              value |-> [cls |-> cls] @@ [f \in present |-> sub[f].value]
                            @@ Defaults(cls),
              n |-> Cardinality(present) + SumFun([f \in present |-> sub[f].n])]
        ELSE [ok |-> FALSE]

to_json(doc) == Dump(doc)

from_json(json) == Validate("Document", json)

---------------------------------------------------------------------------
(* Documents the model constructs: one block of every variant of the Union, *)
(* a second one where the variant has only defaults or an unusual type tag. *)

SampleLink ==
    New("Link", [text |-> <<"a">>, url |-> <<"u">>, start_index |-> Some(0),
                 end_index |-> Some(1)])

SampleCell(content, header) ==
    New("TableCell", [content |-> content, is_header |-> header])

BlockPool ==
    { New("HeadingBlock", [level |-> 1, text |-> <<"a", "b">>,
                           links |-> <<SampleLink>>]),
      New("ParagraphBlock", [text |-> <<"a">>, is_bold |-> TRUE,
                             direction |-> "rtl"]),
      New("ParagraphBlock", [type |-> "quote", text |-> <<"b">>]),
      New("ImageBlock", [image_id |-> <<"i">>, image_path |-> Some(<<"p">>)]),
      New("TableBlock",
          [rows |-> << New("TableRow",
                           [cells |-> <<SampleCell(<<"a">>, TRUE),
                                        SampleCell(<<"b">>, TRUE)>>,
                            is_header_row |-> TRUE]) >>,
           has_header |-> TRUE, row_count |-> 1, column_count |-> 2]),
      New("TableBlock", << >>),
      New("ListBlock", [items |-> << <<"a">>, <<"b">> >>, is_ordered |-> TRUE]),
      New("ListBlock", << >>),
      New("LinkBlock", [text |-> <<"a">>, url |-> <<"u">>]),
      New("PositionedTextBlock",
          [text |-> <<"a">>, confidence |-> 90,
           bbox |-> New("BoundingBox", [x |-> 1, y |-> 2, width |-> 3,
                                        height |-> 4])]) }

PageOf(number, blocks) ==
    New("Page", [page_number |-> number, blocks |-> blocks])

GeneratedDocuments ==
    { New("Document",
          [title |-> Some(<<"T">>),
           metadata |-> New("Metadata", [author |-> Some(<<"a">>),
                                         source_format |-> Some(<<"md">>)]),
           pages |-> <<PageOf(1, blocks)>>, direction |-> "ltr"])
        : blocks \in SeqsUpTo(BlockPool, MaxBlocks) }

---------------------------------------------------------------------------
(* src/extractors/text_extractor.py *)

TXT_is_heading(text, is_first) ==
    IF Len(text) > 100 THEN FALSE
    ELSE IF \E i \in DOMAIN text : text[i] = "\n" THEN FALSE
    ELSE IF is_first /\ Len(text) < 80 THEN TRUE
    ELSE isupper(text) /\ Len(text) < 60

\* BULLET stands for the character U+2022.
ListMarks == {".", ")"}

\* re.match(r'^\s*[-*\u2022]\s+', line)
MatchesBullet(line) ==
    LET r == SkipWhile(line, Whitespace) IN
    Len(r) >= 2 /\ r[1] \in {"-", "*", "BULLET"} /\ r[2] \in Whitespace

\* re.match(r'^\s*\d+[.)]\s+', line)
MatchesNumbered(line) ==
    LET r == SkipWhile(line, Whitespace)
        d == SkipWhile(r, Digits \cup {"AR_ONE"})
    IN  Len(d) < Len(r) /\ Len(d) >= 2 /\ d[1] \in ListMarks
        /\ d[2] \in Whitespace

\* re.match(r'^\s*[a-zA-Z][.)]\s+', line)
MatchesLettered(line) ==
    LET r == SkipWhile(line, Whitespace) IN
    Len(r) >= 3 /\ r[1] \in LowerLetters \cup UpperLetters
        /\ r[2] \in ListMarks /\ r[3] \in Whitespace

TXT_is_list(text) ==
    LET lines == SplitOn(text, {"\n"})
        matches == Cardinality({i \in DOMAIN lines :
                       MatchesBullet(lines[i]) \/ MatchesNumbered(lines[i])
                           \/ MatchesLettered(lines[i])})
    IN  IF Len(lines) < 2 THEN FALSE ELSE 2 * matches >= Len(lines)

TXT_is_ordered_list(text) ==
    LET lines == SplitOn(text, {"\n"}) IN
    \E i \in DOMAIN lines : MatchesNumbered(lines[i]) \/ MatchesLettered(lines[i])

\* re.sub(r'^\s*[-*\u2022\d.)\s]+', '', line).strip() of every line, the empty
\* results left out
TXT_parse_list(text) ==
    LET lines == SplitOn(text, {"\n"})
        marks == {"-", "*", "BULLET", ".", ")", "AR_ONE"} \cup Digits \cup Whitespace
        items == [i \in DOMAIN lines |->
                    Strip(SkipWhile(lines[i], marks), Whitespace)]
    IN  SelectSeq(items, LAMBDA item : item # << >>)

\* The end of every link counted from the length of its URL
TXT_extract_links_url_length(text) ==
    LET url_data == extract_urls(text) IN
    [i \in DOMAIN url_data |->
        New("Link", [text |-> url_data[i].url, url |-> url_data[i].url,
                     start_index |-> Some(url_data[i].start),
                     end_index |-> Some(url_data[i].start
                                            + Len(url_data[i].url))])]

TXT_extract_links(text) ==
    LET url_data == extract_urls(text) IN
    [i \in DOMAIN url_data |->
        New("Link", [text |-> url_data[i].url, url |-> url_data[i].url,
                     start_index |-> Some(url_data[i].start),
                     end_index |-> Some(url_data[i].end)])]

\* The block _parse_content makes of paragraph number i (from 0), or none
TXT_block(paragraph, i) ==
    LET para_text == clean_text(paragraph)
        direction == detect_text_direction(para_text)
    IN  IF para_text = << >> THEN << >>
        ELSE IF TXT_is_heading(para_text, i = 0)
        THEN << New("HeadingBlock", [level |-> IF i = 0 THEN 1 ELSE 2,
                                     text |-> para_text,
                                     direction |-> direction]) >>
        ELSE IF TXT_is_list(para_text)
        THEN << New("ListBlock", [items |-> TXT_parse_list(para_text),
                                  is_ordered |-> TXT_is_ordered_list(para_text),
                                  direction |-> direction]) >>
        ELSE << New("ParagraphBlock", [text |-> para_text,
                                       direction |-> direction,
                                       links |-> TXT_extract_links(para_text)]) >>

TXT_parse_content(content) ==
    LET paragraphs == split_into_paragraphs(content) IN
    Concat([i \in DOMAIN paragraphs |-> TXT_block(paragraphs[i], i - 1)])

\* extract() of the file named stem.txt holding content, last modified at
\* mtime
TextExtractor_extract(content, stem, mtime) ==
    LET filename == stem \o <<".", "t", "x", "t">>
        first == Strip(SplitOn(content, {"\n"})[1], Whitespace)
        title == IF first # << >> /\ Len(first) > 100 THEN << >> ELSE first
        direction == detect_text_direction(content)
    IN  New("Document",
            [title |-> Some(stem),
             metadata |-> New("Metadata",
                 [title |-> Some(IF title # << >> THEN title ELSE filename),
                  word_count |-> Some(count_words(content)),
                  source_format |-> Some(<<"t", "x", "t">>),
                  source_filename |-> Some(filename),
                  modified_date |-> Some(mtime)]),
             pages |-> << New("Page", [page_number |-> 1,
                                       blocks |-> TXT_parse_content(content),
                                       direction |-> direction]) >>,
             direction |-> direction])

---------------------------------------------------------------------------
(* src/extractors/markdown_extractor.py: _parse_table *)

\* re.match(r'^[\s|:-]+$', line) and '-' in line
IsSeparatorLine(line) ==
    /\ line # << >>
    /\ \A i \in DOMAIN line : line[i] \in Whitespace \cup {"|", ":", "-"}
    /\ \E i \in DOMAIN line : line[i] = "-"

\* The rows of the table: one per line that is no separator; line_index
\* counts the separator lines too.
RECURSIVE ParseTableRows(_, _)
ParseTableRows(table_lines, line_index) ==
    IF table_lines = << >> THEN << >>
    ELSE LET line == Head(table_lines)
             rest == ParseTableRows(Tail(table_lines), line_index + 1)
             cells_text == SplitOn(Strip(line, {"|"}), {"|"})
             cells == [i \in DOMAIN cells_text |->
                         New("TableCell", [content |-> clean_text(cells_text[i]),
                                           is_header |-> (line_index = 0)])]
         IN  IF IsSeparatorLine(line) THEN rest
             ELSE IF cells # << >>
             THEN << New("TableRow", [cells |-> cells,
                                      is_header_row |-> (line_index = 0)]) >>
                  \o rest
             ELSE rest

\* _parse_table: None when no row was parsed.
parse_table(table_lines) ==
    LET rows == ParseTableRows(table_lines, 0) IN
    IF rows = << >> THEN None
    ELSE Some(New("TableBlock",
                  [rows |-> rows, has_header |-> TRUE, row_count |-> Len(rows),
                   column_count |-> Len(rows[1].cells)]))

---------------------------------------------------------------------------
(* src/extractors/markdown_extractor.py: _parse_content.  The image ids    *)
(* generate_image_id draws are the parameter image_ids, one per image in   *)
(* the order of the calls.                                                  *)

Smallest(S) == CHOOSE a \in S : \A b \in S : a <= b
Largest(S) == CHOOSE a \in S : \A b \in S : b <= a

\* Position of the first c in text, 0 for none
IndexOf(text, c) ==
    LET found == {i \in DOMAIN text : text[i] = c} IN
    IF found = {} THEN 0 ELSE Smallest(found)

\* Length of the match of r'^---\s*\n(.+?)\n---\s*\n' (DOTALL) at the start
\* of content, 0 for none: the opening white space is greedy, the body is
\* the shortest one that works, the closing white space is greedy.
FrontMatterLen(content) ==
    LET Dashes(i) == /\ i + 2 <= Len(content)
                     /\ SubSeq(content, i, i + 2) = <<"-", "-", "-">>
        WsEnd(i) == Len(content)
                    - Len(SkipWhile(SubSeq(content, i, Len(content)), Whitespace))
        Breaks(i) == {k \in i..WsEnd(i) : content[k] = "\n"}
        opens == IF Dashes(1) THEN Breaks(4) ELSE {}
        Closes(p) == {q \in (p + 2)..Len(content) :
                         content[q] = "\n" /\ Dashes(q + 1) /\ Breaks(q + 4) # {}}
        good == {p \in opens : Closes(p) # {}}
    IN  IF good = {} THEN 0
        ELSE Largest(Breaks(Smallest(Closes(Largest(good))) + 4))

\* re.match(r'^(#{1,6})\s+(.+)$', line): the greedy white space gives its
\* last character back when nothing follows it.
MD_heading_match(line) ==
    LET rest == SkipWhile(line, {"#"})
        k == Len(line) - Len(rest)
        text == SkipWhile(rest, Whitespace)
        ws == Len(rest) - Len(text)
    IN  IF k \in 1..6 /\ ws >= 1 /\ text # << >>
        THEN [ok |-> TRUE, level |-> k, text |-> text]
        ELSE IF k \in 1..6 /\ ws >= 2
        THEN [ok |-> TRUE, level |-> k, text |-> <<rest[Len(rest)]>>]
        ELSE [ok |-> FALSE]

\* The pattern \[([^\]]{min,})\]\(([^)]+)\) at the start of text
MD_bracket_match(text, min) ==
    LET j == IndexOf(text, "]")
        after == SubSeq(text, j + 1, Len(text))
        m == IndexOf(after, ")")
    IN  IF /\ text # << >> /\ text[1] = "[" /\ j >= 2 + min
           /\ after # << >> /\ after[1] = "(" /\ m >= 3
        THEN [ok |-> TRUE, first |-> SubSeq(text, 2, j - 1),
              second |-> SubSeq(after, 2, m - 1), end |-> j + m]
        ELSE [ok |-> FALSE]

\* re.match(r'!\[([^\]]*)\]\(([^)]+)\)', line)
MD_image_match(line) ==
    IF line # << >> /\ line[1] = "!" THEN MD_bracket_match(Tail(line), 0)
    ELSE [ok |-> FALSE]

\* re.match(r'^\[([^\]]+)\]\(([^)]+)\)$', line.strip())
MD_link_match(line) ==
    LET stripped == Strip(line, Whitespace)
        found == MD_bracket_match(stripped, 1)
    IN  IF found.ok /\ found.end = Len(stripped) THEN found ELSE [ok |-> FALSE]

\* re.match(r'^\s*[-*+]\s+', line)
MD_matches_bullet(line) ==
    LET r == SkipWhile(line, Whitespace) IN
    Len(r) >= 2 /\ r[1] \in {"-", "*", "+"} /\ r[2] \in Whitespace

MD_is_list_line(line) == MD_matches_bullet(line) \/ MatchesNumbered(line)

\* lines[i].startswith('|') or re.match(r'^[\s|:-]+$', lines[i])
MD_is_table_line(line) ==
    \/ StartsWith(line, <<"|">>)
    \/ /\ line # << >>
       /\ \A i \in DOMAIN line : line[i] \in Whitespace \cup {"|", ":", "-"}

\* The lines a paragraph goes on with (lines 164-168)
MD_continues_paragraph(line) ==
    /\ Strip(line, Whitespace) # << >>
    /\ ~StartsWith(line, <<"#">>)
    /\ ~MD_is_list_line(line)
    /\ ~StartsWith(line, <<"|">>)

\* The first position from i on whose line does not satisfy P
RunEnd(lines, i, P(_)) ==
    LET stops == {j \in i..Len(lines) : ~P(lines[j])} IN
    IF stops = {} THEN Len(lines) + 1 ELSE Smallest(stops)

\* re.sub(r'^\s*[-*+\d.)\s]+', '', line) of every line of a list run; the
\* items that are not blank are kept, cleaned
MD_list_items(run) ==
    LET marks == {"-", "*", "+", ".", ")", "AR_ONE"} \cup Digits \cup Whitespace
        items == [i \in DOMAIN run |-> SkipWhile(run[i], marks)]
    IN  [i \in DOMAIN SelectSeq(items, LAMBDA item : Strip(item, Whitespace) # << >>) |->
            clean_text(SelectSeq(items,
                LAMBDA item : Strip(item, Whitespace) # << >>)[i])]

\* re.finditer(r'\[([^\]]+)\]\(([^)]+)\)', text) from offset on
RECURSIVE MD_find_links(_, _)
MD_find_links(text, offset) ==
    IF offset >= Len(text) THEN << >>
    ELSE LET found == MD_bracket_match(SubSeq(text, offset + 1, Len(text)), 1) IN
         IF ~found.ok THEN MD_find_links(text, offset + 1)
         ELSE << New("Link", [text |-> found.first, url |-> found.second,
                              start_index |-> Some(offset),
                              end_index |-> Some(offset + found.end)]) >>
              \o MD_find_links(text, offset + found.end)

MD_extract_links(text) == MD_find_links(text, 0)

\* The while loop of _parse_content from line i on (from 1)
RECURSIVE MD_parse_lines(_, _, _)
MD_parse_lines(lines, i, image_ids) ==
    IF i > Len(lines) THEN << >>
    ELSE
    LET line == lines[i]
        heading_match == MD_heading_match(line)
        image_match == MD_image_match(line)
        link_match == MD_link_match(line)
    IN  IF heading_match.ok
        THEN LET text == clean_text(heading_match.text) IN
             (IF text # << >>
              THEN << New("HeadingBlock",
                          [level |-> heading_match.level, text |-> text,
                           direction |-> detect_text_direction(text)]) >>
              ELSE << >>)
             \o MD_parse_lines(lines, i + 1, image_ids)
        ELSE IF image_match.ok
        THEN << New("ImageBlock",
                    [image_id |-> Head(image_ids),
                     alt_text |-> Some(image_match.first),
                     image_path |-> Some(image_match.second),
                     caption |-> Some(image_match.first)]) >>
             \o MD_parse_lines(lines, i + 1, Tail(image_ids))
        ELSE IF link_match.ok
        THEN << New("LinkBlock", [text |-> link_match.first,
                                  url |-> link_match.second]) >>
             \o MD_parse_lines(lines, i + 1, image_ids)
        ELSE IF MD_is_list_line(line)
        THEN LET end == RunEnd(lines, i, MD_is_list_line)
                 items == MD_list_items(SubSeq(lines, i, end - 1))
             IN  (IF items # << >>
                  THEN << New("ListBlock",
                              [items |-> items,
                               is_ordered |-> MatchesNumbered(line),
                               direction |-> detect_text_direction(
                                                 Join(<<" ">>, items))]) >>
                  ELSE << >>)
                 \o MD_parse_lines(lines, end, image_ids)
        ELSE IF StartsWith(line, <<"|">>)
        THEN LET end == RunEnd(lines, i, MD_is_table_line) IN
             parse_table(SubSeq(lines, i, end - 1))
                 \o MD_parse_lines(lines, end, image_ids)
        ELSE IF Strip(line, Whitespace) # << >>
        THEN LET end == RunEnd(lines, i + 1, MD_continues_paragraph)
                 para_text == clean_text(Join(<<"\n">>, SubSeq(lines, i, end - 1)))
             IN  (IF para_text # << >>
                  THEN << New("ParagraphBlock",
                              [text |-> para_text,
                               direction |-> detect_text_direction(para_text),
                               links |-> MD_extract_links(para_text)]) >>
                  ELSE << >>)
                 \o MD_parse_lines(lines, end, image_ids)
        ELSE MD_parse_lines(lines, i + 1, image_ids)

MD_parse_content(content, image_ids) ==
    MD_parse_lines(SplitOn(SubSeq(content, FrontMatterLen(content) + 1,
                                  Len(content)), {"\n"}),
                   1, image_ids)

---------------------------------------------------------------------------
\* str.lower() on the letters A-Z
Alphabet ==
    [lower |-> <<"a", "b", "c", "d", "e", "f", "g", "h", "i", "j", "k", "l", "m",
                 "n", "o", "p", "q", "r", "s", "t", "u", "v", "w", "x", "y", "z">>,
     upper |-> <<"A", "B", "C", "D", "E", "F", "G", "H", "I", "J", "K", "L", "M",
                 "N", "O", "P", "Q", "R", "S", "T", "U", "V", "W", "X", "Y", "Z">>]

str_lower(text) ==
    [i \in DOMAIN text |->
        IF text[i] \in UpperLetters
        THEN Alphabet.lower[CHOOSE k \in 1..26 : Alphabet.upper[k] = text[i]]
        ELSE text[i]]

\* Group 1 of the match of r'^---\s*\n(.+?)\n---\s*\n' (DOTALL) at the start
\* of content, as Some(body), or None
FrontMatterBody(content) ==
    LET Dashes(i) == /\ i + 2 <= Len(content)
                     /\ SubSeq(content, i, i + 2) = <<"-", "-", "-">>
        WsEnd(i) == Len(content)
                    - Len(SkipWhile(SubSeq(content, i, Len(content)), Whitespace))
        Breaks(i) == {k \in i..WsEnd(i) : content[k] = "\n"}
        opens == IF Dashes(1) THEN Breaks(4) ELSE {}
        Closes(p) == {q \in (p + 2)..Len(content) :
                         content[q] = "\n" /\ Dashes(q + 1) /\ Breaks(q + 4) # {}}
        good == {p \in opens : Closes(p) # {}}
    IN  IF good = {} THEN None
        ELSE Some(SubSeq(content, Largest(good) + 1,
                         Smallest(Closes(Largest(good))) - 1))

\* front_matter.get(key) of _extract_metadata: the lines of the front
\* matter with a colon are split at the first one, the key stripped and
\* lower-cased, the value stripped; a later line replaces an earlier one.
MD_front_matter_get(content, key) ==
    LET fm_match == FrontMatterBody(content)
        lines == IF fm_match = None THEN << >> ELSE SplitOn(fm_match[1], {"\n"})
        KeyOf(line) ==
            str_lower(Strip(SubSeq(line, 1, IndexOf(line, ":") - 1), Whitespace))
        hits == {i \in DOMAIN lines :
                    IndexOf(lines[i], ":") > 0 /\ KeyOf(lines[i]) = key}
    IN  IF hits = {} THEN None
        ELSE Some(Strip(SubSeq(lines[Largest(hits)],
                               IndexOf(lines[Largest(hits)], ":") + 1,
                               Len(lines[Largest(hits)])), Whitespace))

\* re.match(r'^#\s+(.+)$', content, re.MULTILINE): a match at the start of
\* the content only; group 1 stripped, empty for no match
MD_title_match(content) ==
    LET rest == IF content = << >> THEN << >> ELSE Tail(content)
        text == SkipWhile(rest, Whitespace)
    IN  IF content # << >> /\ Head(content) = "#" /\ Len(text) < Len(rest)
            /\ text # << >>
        THEN Strip(SplitOn(text, {"\n"})[1], Whitespace)
        ELSE << >>

MD_extract_metadata(content, filename, mtime) ==
    LET fm_title == MD_front_matter_get(content, <<"t", "i", "t", "l", "e">>)
        title == MD_title_match(content)
    IN  New("Metadata",
            [title |-> Some(IF fm_title # None /\ fm_title[1] # << >>
                            THEN fm_title[1]
                            ELSE IF title # << >> THEN title ELSE filename),
             author |-> MD_front_matter_get(content,
                                            <<"a", "u", "t", "h", "o", "r">>),
             subject |-> MD_front_matter_get(content,
                             <<"d", "e", "s", "c", "r", "i", "p", "t", "i", "o", "n">>),
             word_count |-> Some(count_words(content)),
             source_format |-> Some(<<"m", "d">>),
             source_filename |-> Some(filename),
             modified_date |-> Some(mtime)])

\* The Document extract() builds around the blocks of the content
MD_document(content, stem, mtime, blocks) ==
    LET direction == detect_text_direction(content)
        first == {i \in DOMAIN blocks :
                     blocks[i].cls = "HeadingBlock" /\ blocks[i].level = 1}
    IN  New("Document",
            [title |-> Some(IF first # {} /\ blocks[Smallest(first)].text # << >>
                            THEN blocks[Smallest(first)].text ELSE stem),
             metadata |-> MD_extract_metadata(content,
                              stem \o <<".", "m", "d">>, mtime),
             pages |-> << New("Page", [page_number |-> 1, blocks |-> blocks,
                                       direction |-> direction]) >>,
             direction |-> direction])

\* extract() of the file named stem.md holding content, last modified at
\* mtime
MarkdownExtractor_extract(content, stem, mtime, image_ids) ==
    MD_document(content, stem, mtime, MD_parse_content(content, image_ids))

---------------------------------------------------------------------------
(* Converter output.  An output string is a sequence of items, each one     *)
(* piece of text c with the flag data: TRUE for a character copied from the *)
(* document, FALSE for markup the converter writes itself.  Markup that is  *)
(* spliced into text by character offsets is written character by           *)
(* character, other markup as whole tokens.                                 *)

D(text) == [i \in DOMAIN text |-> [c |-> text[i], data |-> TRUE]]
L(tokens) == [i \in DOMAIN tokens |-> [c |-> tokens[i], data |-> FALSE]]
NL == L(<<"\n">>)

\* a or b or ... on Optional[str] operands, the last operand a str.
OrElse(options, default) ==
    LET truthy == {i \in DOMAIN options : Truthy(options[i])} IN
    IF truthy = {} THEN default
    ELSE options[CHOOSE i \in truthy : \A j \in truthy : i <= j][1]

\* text[:n] and text[n:] for n >= 0
Take(text, n) == SubSeq(text, 1, IF n < Len(text) THEN n ELSE Len(text))
Drop(text, n) == SubSeq(text, (IF n < Len(text) THEN n ELSE Len(text)) + 1, Len(text))

\* str.replace(old, new) for a one-character old
RECURSIVE Replace(_, _, _)
Replace(text, old, new) ==
    IF text = << >> THEN << >>
    ELSE (IF Head(text) = old THEN new ELSE <<Head(text)>>)
         \o Replace(Tail(text), old, new)

---------------------------------------------------------------------------
(* src/converters/html_converter.py *)

HTML_escape_html(text) ==
    IF text = << >> THEN << >>
    ELSE Replace(Replace(Replace(Replace(Replace(text,
            "&", <<"&", "a", "m", "p", ";">>),
            "<", <<"&", "l", "t", ";">>),
            ">", <<"&", "g", "t", ";">>),
            "\"", <<"&", "q", "u", "o", "t", ";">>),
            "'", <<"&", "#", "3", "9", ";">>)

HTML_get_direction_attr(direction) ==
    IF direction = "rtl" THEN L(<<" dir=\"rtl\" class=\"rtl\"">>)
    ELSE IF direction = "ltr" THEN L(<<" dir=\"ltr\" class=\"ltr\"">>)
    ELSE << >>

\* <a href="...">...</a>, written character by character
HTML_anchor(url, text) ==
    L(<<"<", "a", " ", "h", "r", "e", "f", "=", "\"">>)
    \o D(HTML_escape_html(url)) \o L(<<"\"", ">">>)
    \o D(HTML_escape_html(text)) \o L(<<"<", "/", "a", ">">>)

\* _apply_links: the links from the last to the first, each spliced in at
\* its offsets into the text as it is by then.
RECURSIVE HTML_apply_links(_, _)
HTML_apply_links(text, links) ==
    IF links = << >> THEN text
    ELSE LET link == links[Len(links)] IN
         HTML_apply_links(
            IF link.start_index # None /\ link.end_index # None
            THEN Take(text, link.start_index[1])
                 \o HTML_anchor(link.url, link.text)
                 \o Drop(text, link.end_index[1])
            ELSE text,
            SubSeq(links, 1, Len(links) - 1))

HTML_block_text(block) ==
    IF block.links # << >>
    THEN HTML_apply_links(D(HTML_escape_html(block.text)), block.links)
    ELSE D(HTML_escape_html(block.text))

HTML_convert_heading(block) ==
    L(<<"<h", ToString(block.level)>>) \o HTML_get_direction_attr(block.direction)
    \o L(<<">">>) \o HTML_block_text(block)
    \o L(<<"</h", ToString(block.level), ">">>)

HTML_convert_paragraph(block) ==
    LET classes == (IF block.is_bold THEN <<L(<<"bold">>)>> ELSE << >>)
                   \o (IF block.is_italic THEN <<L(<<"italic">>)>> ELSE << >>)
        class_attr == IF classes # << >>
                      THEN L(<<" class=\"">>) \o Join(L(<<" ">>), classes)
                           \o L(<<"\"">>)
                      ELSE << >>
    IN  L(<<"<p">>) \o HTML_get_direction_attr(block.direction) \o class_attr
        \o L(<<">">>) \o HTML_block_text(block) \o L(<<"</p>">>)

HTML_convert_image(block, embed_images) ==
    IF ~(embed_images /\ Truthy(block.image_data)) /\ ~Truthy(block.image_path)
    THEN << >>
    ELSE LET src == IF embed_images /\ Truthy(block.image_data)
                    THEN block.image_data[1] ELSE block.image_path[1]
             alt == HTML_escape_html(
                        OrElse(<<block.alt_text, block.caption>>,
                               <<"I", "m", "a", "g", "e">>))
         IN  Join(NL,
                <<L(<<"<figure>">>),
                  L(<<"<img src=\"">>) \o D(src) \o L(<<"\" alt=\"">>) \o D(alt)
                      \o L(<<"\">">>)>>
                \o (IF Truthy(block.caption)
                    THEN <<L(<<"<figcaption class=\"image-caption\">">>)
                           \o D(HTML_escape_html(block.caption[1]))
                           \o L(<<"</figcaption>">>)>>
                    ELSE << >>)
                \o <<L(<<"</figure>">>)>>)

HTML_convert_cell(cell) ==
    LET tag == IF cell.is_header THEN "th" ELSE "td"
        attrs == (IF cell.colspan > 1
                  THEN <<L(<<"colspan=\"", ToString(cell.colspan), "\"">>)>>
                  ELSE << >>)
                 \o (IF cell.rowspan > 1
                     THEN <<L(<<"rowspan=\"", ToString(cell.rowspan), "\"">>)>>
                     ELSE << >>)
        attr_str == IF attrs # << >> THEN L(<<" ">>) \o Join(L(<<" ">>), attrs)
                    ELSE << >>
    IN  L(<<"<", tag>>) \o attr_str \o L(<<">">>)
        \o D(HTML_escape_html(cell.content)) \o L(<<"</", tag, ">">>)

HTML_convert_table(block) ==
    Join(NL,
        <<L(<<"<table>">>)>>
        \o (IF Truthy(block.caption)
            THEN <<L(<<"<caption>">>) \o D(HTML_escape_html(block.caption[1]))
                   \o L(<<"</caption>">>)>>
            ELSE << >>)
        \o Concat([r \in DOMAIN block.rows |->
                     <<L(<<"<tr>">>)>>
                     \o [c \in DOMAIN block.rows[r].cells |->
                            HTML_convert_cell(block.rows[r].cells[c])]
                     \o <<L(<<"</tr>">>)>>])
        \o <<L(<<"</table>">>)>>)

HTML_convert_list(block) ==
    LET tag == IF block.is_ordered THEN "ol" ELSE "ul" IN
    Join(NL,
        <<L(<<"<", tag>>) \o HTML_get_direction_attr(block.direction)
          \o L(<<">">>)>>
        \o [i \in DOMAIN block.items |->
              L(<<"<li>">>) \o D(HTML_escape_html(block.items[i]))
              \o L(<<"</li>">>)]
        \o <<L(<<"</", tag, ">">>)>>)

HTML_convert_link(block) ==
    L(<<"<p><a href=\"">>) \o D(HTML_escape_html(block.url)) \o L(<<"\">">>)
    \o D(HTML_escape_html(block.text)) \o L(<<"</a></p>">>)

\* _convert_block: dispatch on the class; a class without handler gives ''.
HTML_convert_block(block, embed_images) ==
    CASE block.cls = "HeadingBlock" -> HTML_convert_heading(block)
      [] block.cls = "ParagraphBlock" -> HTML_convert_paragraph(block)
      [] block.cls = "ImageBlock" -> HTML_convert_image(block, embed_images)
      [] block.cls = "TableBlock" -> HTML_convert_table(block)
      [] block.cls = "ListBlock" -> HTML_convert_list(block)
      [] block.cls = "LinkBlock" -> HTML_convert_link(block)
      [] OTHER -> << >>

HTML_convert_page(doc, page, embed_images) ==
    Join(NL,
        <<L(<<"<div class=\"page\" id=\"page-", ToString(page.page_number), "\"">>)
          \o HTML_get_direction_attr(page.direction) \o L(<<">">>)>>
        \o (IF Len(doc.pages) > 1
            THEN <<L(<<"<div class=\"page-header\">">>)
                   \o D(HTML_escape_html(
                          IF Truthy(page.title) THEN page.title[1]
                          ELSE <<"P", "a", "g", "e", " ">>
                               \o <<ToString(page.page_number)>>))
                   \o L(<<"</div>">>)>>
            ELSE << >>)
        \o [b \in DOMAIN page.blocks |->
              HTML_convert_block(page.blocks[b], embed_images)]
        \o <<L(<<"</div>">>)>>)

HTMLConverter_convert(doc, include_styles, embed_images) ==
    LET meta == doc.metadata
        title == OrElse(<<doc.title>>, <<"D", "o", "c", "u", "m", "e", "n", "t">>)
    IN
    Join(NL,
        <<L(<<"<!DOCTYPE html>">>), L(<<"<html lang=\"ar\" dir=\"auto\">">>),
          L(<<"<head>">>), L(<<"<meta charset=\"UTF-8\">">>),
          L(<<"<meta name=\"viewport\" content=\"width=device-width, initial-scale=1.0\">">>),
          L(<<"<title>">>) \o D(HTML_escape_html(title)) \o L(<<"</title>">>)>>
        \o (IF Truthy(meta.author)
            THEN <<L(<<"<meta name=\"author\" content=\"">>)
                   \o D(HTML_escape_html(meta.author[1])) \o L(<<"\">">>)>>
            ELSE << >>)
        \o (IF Truthy(meta.subject)
            THEN <<L(<<"<meta name=\"description\" content=\"">>)
                   \o D(HTML_escape_html(meta.subject[1])) \o L(<<"\">">>)>>
            ELSE << >>)
        \o (IF meta.keywords # << >>
            THEN <<L(<<"<meta name=\"keywords\" content=\"">>)
                   \o D(HTML_escape_html(Join(<<",", " ">>, meta.keywords)))
                   \o L(<<"\">">>)>>
            ELSE << >>)
        \o (IF include_styles THEN <<L(<<"<style>...</style>">>)>> ELSE << >>)
        \o <<L(<<"</head>">>),
             L(<<"<body">>) \o HTML_get_direction_attr(doc.direction)
                 \o L(<<">">>),
             L(<<"<div class=\"document-container\">">>)>>
        \o (IF Truthy(doc.title)
            THEN <<L(<<"<h1 class=\"document-title\">">>)
                   \o D(HTML_escape_html(doc.title[1])) \o L(<<"</h1>">>)>>
            ELSE << >>)
        \o [p \in DOMAIN doc.pages |->
              HTML_convert_page(doc, doc.pages[p], embed_images)]
        \o <<L(<<"</div>">>), L(<<"</body>">>), L(<<"</html>">>)>>)

---------------------------------------------------------------------------
(* src/converters/markdown_converter.py.  The output is a sequence of       *)
(* strings: the document's characters one by one, the converter's own       *)
(* markup as tokens, every line break a token "\n" of its own.              *)

Repeat(token, n) == [i \in 1..n |-> token]

\* str.replace(old, new, 1): the first occurrence only; an empty old is
\* found at the very start.
ReplaceFirst(text, old, new) ==
    LET found == {i \in 1..(Len(text) + 1) :
                     /\ i + Len(old) - 1 <= Len(text)
                     /\ SubSeq(text, i, i + Len(old) - 1) = old}
    IN  IF found = {} THEN text
        ELSE LET i == CHOOSE k \in found : \A j \in found : k <= j
             IN  SubSeq(text, 1, i - 1) \o new
                 \o SubSeq(text, i + Len(old), Len(text))

MD_link(text, url) == <<"[">> \o text \o <<"]", "(">> \o url \o <<")">>

RECURSIVE MD_apply_links(_, _)
MD_apply_links(text, links) ==
    IF links = << >> THEN text
    ELSE LET link == links[Len(links)] IN
         MD_apply_links(
            IF link.start_index # None /\ link.end_index # None
            THEN Take(text, link.start_index[1])
                 \o MD_link(link.text, link.url)
                 \o Drop(text, link.end_index[1])
            ELSE ReplaceFirst(text, link.text, MD_link(link.text, link.url)),
            SubSeq(links, 1, Len(links) - 1))

MD_escape_yaml(text) ==
    IF text = << >> THEN << >>
    ELSE Replace(Replace(text, "\"", <<"\\", "\"">>), "\n", <<" ">>)

MD_generate_frontmatter(doc) ==
    LET meta == doc.metadata
        Field(key, value) == <<key>> \o value \o <<"\"">>
        lines ==
            << <<"---">> >>
            \o (IF Truthy(meta.title)
                THEN <<Field("title: \"", MD_escape_yaml(meta.title[1]))>>
                ELSE << >>)
            \o (IF Truthy(meta.author)
                THEN <<Field("author: \"", MD_escape_yaml(meta.author[1]))>>
                ELSE << >>)
            \o (IF Truthy(meta.subject)
                THEN <<Field("description: \"", MD_escape_yaml(meta.subject[1]))>>
                ELSE << >>)
            \o (IF meta.keywords # << >>
                THEN <<Field("keywords: \"",
                             MD_escape_yaml(Join(<<",", " ">>, meta.keywords)))>>
                ELSE << >>)
            \o (IF meta.created_date # None
                THEN <<Field("date: \"", meta.created_date[1])>> ELSE << >>)
            \o (IF Truthy(meta.source_format)
                THEN <<Field("source_format: \"", meta.source_format[1])>>
                ELSE << >>)
            \o (IF doc.direction = "rtl" THEN << <<"dir: rtl">> >> ELSE << >>)
            \o << <<"---">>, << >> >>
    IN  IF Len(lines) <= 3 THEN << >> ELSE Join(<<"\n">>, lines)

MD_convert_heading(block) ==
    Repeat("#", block.level) \o <<" ">>
    \o (IF block.links # << >> THEN MD_apply_links(block.text, block.links)
        ELSE block.text)

MD_convert_paragraph(block) ==
    LET linked == IF block.links # << >>
                  THEN MD_apply_links(block.text, block.links) ELSE block.text
        styled == IF block.is_bold /\ block.is_italic
                  THEN <<"***">> \o linked \o <<"***">>
                  ELSE IF block.is_bold THEN <<"**">> \o linked \o <<"**">>
                  ELSE IF block.is_italic THEN <<"*">> \o linked \o <<"*">>
                  ELSE linked
    IN  IF block.direction = "rtl"
        THEN <<"<div dir=\"rtl\">", "\n", "\n">> \o styled
             \o <<"\n", "\n", "</div>">>
        ELSE styled

MD_convert_image(block, embed_images) ==
    LET alt_text == OrElse(<<block.alt_text, block.caption>>,
                           <<"I", "m", "a", "g", "e">>)
        src == IF embed_images /\ Truthy(block.image_data)
               THEN block.image_data[1]
               ELSE IF Truthy(block.image_path) THEN block.image_path[1]
               ELSE <<"image_">> \o block.image_id
    IN  <<"![">> \o alt_text \o <<"](">> \o src \o <<")">>
        \o (IF Truthy(block.caption)
            THEN <<"\n", "\n", "*">> \o block.caption[1] \o <<"*">>
            ELSE << >>)

MD_convert_table(block) ==
    IF block.rows = << >> THEN << >>
    ELSE
    LET max_cols == CHOOSE n \in {Len(block.rows[r].cells) : r \in DOMAIN block.rows} :
                        \A r \in DOMAIN block.rows : Len(block.rows[r].cells) <= n
        Cells(row) == [i \in 1..max_cols |->
                         IF i <= Len(row.cells) THEN row.cells[i].content
                         ELSE << >>]
        Line(cells) == <<"| ">> \o Join(<<" | ">>, cells) \o <<" |">>
        Dashes(cells) == [i \in DOMAIN cells |->
                            Repeat("-", IF Len(cells[i]) > 3 THEN Len(cells[i])
                                        ELSE 3)]
    IN  Join(<<"\n">>,
            (IF Truthy(block.caption)
             THEN << <<"**">> \o block.caption[1] \o <<"**">>, << >> >>
             ELSE << >>)
            \o Concat([r \in DOMAIN block.rows |->
                         <<Line(Cells(block.rows[r]))>>
                         \o (IF r = 1
                             THEN <<Line(Dashes(Cells(block.rows[r])))>>
                             ELSE << >>)]))

MD_convert_list(block) ==
    Join(<<"\n">>,
        [i \in DOMAIN block.items |->
            (IF block.is_ordered THEN <<ToString(i), ". ">> ELSE <<"- ">>)
            \o block.items[i]])

MD_convert_link(block) == MD_link(block.text, block.url)

MD_convert_block(block, embed_images) ==
    CASE block.cls = "HeadingBlock" -> MD_convert_heading(block)
      [] block.cls = "ParagraphBlock" -> MD_convert_paragraph(block)
      [] block.cls = "ImageBlock" -> MD_convert_image(block, embed_images)
      [] block.cls = "TableBlock" -> MD_convert_table(block)
      [] block.cls = "ListBlock" -> MD_convert_list(block)
      [] block.cls = "LinkBlock" -> MD_convert_link(block)
      [] OTHER -> << >>

MD_convert_page(doc, page, embed_images) ==
    Join(<<"\n">>,
        (IF Len(doc.pages) > 1
         THEN << (IF Truthy(page.title) THEN <<"## ">> \o page.title[1]
                  ELSE <<"## Page ", ToString(page.page_number)>>), << >> >>
         ELSE << >>)
        \o Concat([b \in DOMAIN page.blocks |->
                     LET block_content ==
                             MD_convert_block(page.blocks[b], embed_images)
                     IN  IF block_content # << >>
                         THEN <<block_content, << >> >> ELSE << >>])
        \o (IF Len(doc.pages) > 1 THEN << <<"---">>, << >> >> ELSE << >>))

MarkdownConverter_convert(doc, include_frontmatter, embed_images) ==
    LET frontmatter == MD_generate_frontmatter(doc) IN
    Join(<<"\n">>,
        (IF include_frontmatter /\ frontmatter # << >>
         THEN <<frontmatter>> ELSE << >>)
        \o (IF Truthy(doc.title)
            THEN << <<"# ">> \o doc.title[1], << >> >> ELSE << >>)
        \o Concat([p \in DOMAIN doc.pages |->
                     LET page_content ==
                             MD_convert_page(doc, doc.pages[p], embed_images)
                     IN  IF page_content # << >> THEN <<page_content>>
                         ELSE << >>]))

---------------------------------------------------------------------------
(* src/converters/docx_converter.py.  The package python-docx builds is     *)
(* the sequence of the calls made on it (body) and the modification time    *)
(* its writer stamps on every member of the zip archive (stamp, the clock   *)
(* at the call in the archive's two-second units).  A call that raises is   *)
(* an entry [op |-> "raise"]: the conversion ends there.                    *)

\* Image payloads.  One element stands for a whole base64 text: PictureB64
\* decodes to a picture, BytesB64 to bytes that are no picture; any other
\* non-empty text of the model is no base64 (incorrect padding).
PictureB64 == "iVBORw0KGgo="
BytesB64 == "AAAA"

\* base64.b64decode: the bytes, or an error
b64decode(text) ==
    IF text = << >> THEN [ok |-> TRUE, bytes |-> "", picture |-> FALSE]
    ELSE IF text = <<PictureB64>> THEN [ok |-> TRUE, bytes |-> "png", picture |-> TRUE]
    ELSE IF text = <<BytesB64>> THEN [ok |-> TRUE, bytes |-> "raw", picture |-> FALSE]
    ELSE [ok |-> FALSE]

DOCX_paragraph(text, style, bold, italic, direction) ==
    [op |-> "paragraph", text |-> text, style |-> style, bold |-> bold,
     italic |-> italic, rtl |-> (direction = "rtl")]

DOCX_placeholder(block) ==
    DOCX_paragraph(<<"[Image: ">> \o block.caption[1] \o <<"]">>, "Normal",
                   FALSE, FALSE, "auto")

DOCX_convert_heading(block) ==
    << [op |-> "heading", text |-> block.text, level |-> block.level,
        rtl |-> (block.direction = "rtl")] >>

DOCX_convert_paragraph(block) ==
    << DOCX_paragraph(block.text, "Normal", block.is_bold, block.is_italic,
                      block.direction) >>

DOCX_convert_image(block, embed_images) ==
    IF ~embed_images
    THEN IF Truthy(block.caption) THEN <<DOCX_placeholder(block)>> ELSE << >>
    ELSE
    LET data == block.image_data
        is_data_url == Truthy(data) /\ Head(data[1]) = "data:"
        pieces == IF is_data_url THEN SplitOn(data[1], {","}) ELSE << >>
        decoded == IF ~Truthy(data) THEN [ok |-> FALSE]
                   ELSE IF is_data_url THEN b64decode(pieces[2])
                   ELSE b64decode(data[1])
        caption == IF Truthy(block.caption)
                   THEN << [op |-> "caption", text |-> block.caption[1]] >>
                   ELSE << >>
    IN  IF is_data_url /\ Len(pieces) < 2
        THEN << [op |-> "raise",
                 error |-> [type |-> "IndexError",
                            message |-> "list index out of range"]] >>
        ELSE IF is_data_url /\ ~decoded.ok
        THEN << [op |-> "raise",
                 error |-> [type |-> "binascii.Error",
                            message |-> "Incorrect padding"]] >>
        ELSE IF decoded.ok /\ decoded.bytes # ""
        THEN (IF decoded.picture
              THEN << [op |-> "picture", bytes |-> decoded.bytes] >>
              ELSE IF Truthy(block.caption) THEN <<DOCX_placeholder(block)>>
              ELSE << >>)
             \o caption
        ELSE caption

DOCX_convert_table(block) ==
    IF block.rows = << >> THEN << >>
    ELSE
    LET num_rows == Len(block.rows)
        num_cols == CHOOSE n \in {Len(block.rows[r].cells) : r \in DOMAIN block.rows} :
                        \A r \in DOMAIN block.rows : Len(block.rows[r].cells) <= n
    IN  IF num_cols = 0 THEN << >>
        ELSE << [op |-> "table", rows |-> num_rows, cols |-> num_cols,
                 cells |-> [r \in 1..num_rows |-> [c \in 1..num_cols |->
                     IF c <= Len(block.rows[r].cells)
                     THEN [text |-> block.rows[r].cells[c].content,
                           bold |-> block.rows[r].cells[c].is_header]
                     ELSE [text |-> << >>, bold |-> FALSE]]]],
               DOCX_paragraph(<< >>, "Normal", FALSE, FALSE, "auto") >>

DOCX_convert_list(block) ==
    [i \in DOMAIN block.items |->
        DOCX_paragraph(block.items[i],
                       IF block.is_ordered THEN "List Number" ELSE "List Bullet",
                       FALSE, FALSE, block.direction)]

DOCX_convert_link(block) ==
    << [op |-> "hyperlink", url |-> block.url, text |-> block.text] >>

\* _convert_block with a last branch that refuses the classes it has no
\* handler for.
DOCX_convert_block_unhandled_raises(block, embed_images) ==
    CASE block.cls = "HeadingBlock" -> DOCX_convert_heading(block)
      [] block.cls = "ParagraphBlock" -> DOCX_convert_paragraph(block)
      [] block.cls = "ImageBlock" -> DOCX_convert_image(block, embed_images)
      [] block.cls = "TableBlock" -> DOCX_convert_table(block)
      [] block.cls = "ListBlock" -> DOCX_convert_list(block)
      [] block.cls = "LinkBlock" -> DOCX_convert_link(block)
      [] OTHER -> << [op |-> "raise",
                      error |-> [type |-> "TypeError",
                                 message |-> "unsupported block"]] >>

\* _convert_block: the classes without handler add nothing.
DOCX_convert_block(block, embed_images) ==
    CASE block.cls = "HeadingBlock" -> DOCX_convert_heading(block)
      [] block.cls = "ParagraphBlock" -> DOCX_convert_paragraph(block)
      [] block.cls = "ImageBlock" -> DOCX_convert_image(block, embed_images)
      [] block.cls = "TableBlock" -> DOCX_convert_table(block)
      [] block.cls = "ListBlock" -> DOCX_convert_list(block)
      [] block.cls = "LinkBlock" -> DOCX_convert_link(block)
      [] OTHER -> << >>

DOCX_convert_page(doc, page, embed_images) ==
    (IF Len(doc.pages) > 1 /\ page.page_number > 1
     THEN << [op |-> "page_break"] >> ELSE << >>)
    \o Concat([b \in DOMAIN page.blocks |->
                 DOCX_convert_block(page.blocks[b], embed_images)])

\* convert(): the calls up to the first that raises decide the outcome.
DocxConverter_convert(doc, embed_images, now) ==
    LET calls == (IF Truthy(doc.title)
                  THEN << [op |-> "heading", text |-> doc.title[1], level |-> 0,
                           rtl |-> (doc.direction = "rtl")] >>
                  ELSE << >>)
                 \o Concat([p \in DOMAIN doc.pages |->
                              DOCX_convert_page(doc, doc.pages[p], embed_images)])
        raised == {i \in DOMAIN calls : calls[i].op = "raise"}
    IN  IF raised = {}
        THEN [ok |-> TRUE, body |-> calls, stamp |-> now]
        ELSE [ok |-> FALSE,
              error |-> calls[CHOOSE i \in raised : \A j \in raised : i <= j].error]

---------------------------------------------------------------------------
(* src/extractors/pdf_extractor.py.  A PDF file is what PyMuPDF reports of  *)
(* it: its metadata and, page by page, the text blocks (lines of spans),    *)
(* the images, the links and the tables.  A sub-element with raises = TRUE  *)
(* is one whose library call (extract_image, get_text, Table.extract)       *)
(* raises.  The image ids generate_image_id draws are the parameter         *)
(* image_ids.                                                               *)

\* is_heading turning down every text that ends with a period
is_heading_no_period(text) ==
    LET t == Strip(text, Whitespace)
        n == Len(t)
    IN  /\ text # << >>
        /\ n >= 3 /\ n <= 200
        /\ t[n] # "."
        /\ \A i \in DOMAIN t : t[i] # "\n"

\* text_utils.is_heading(text) with min_length 3 and max_length 200
is_heading(text) ==
    LET t == Strip(text, Whitespace)
        n == Len(t)
    IN  /\ text # << >>
        /\ n >= 3 /\ n <= 200
        /\ ~(t[n] = "." /\ SubSeq(t, n - 2, n) # <<".", ".", ".">>)
        /\ \A i \in DOMAIN t : t[i] # "\n"

PDF_determine_heading_level(font_size) ==
    IF font_size >= 24 THEN 1
    ELSE IF font_size >= 20 THEN 2
    ELSE IF font_size >= 16 THEN 3
    ELSE IF font_size >= 14 THEN 4
    ELSE IF font_size >= 12 THEN 5
    ELSE 6

PDF_position(number, suffix) == <<"page_", ToString(number)>> \o suffix

\* The block of one text block of the page, or none
PDF_text_block(block, number) ==
    LET spans == Concat(block.lines)
        block_text == clean_text(Concat([l \in DOMAIN block.lines |->
                          Concat([k \in DOMAIN block.lines[l] |->
                                     block.lines[l][k].text]) \o <<"\n">>]))
        sizes == {spans[k].size : k \in DOMAIN spans} \cup {0}
        max_font_size == Largest(sizes)
        is_bold == \E k \in DOMAIN spans : spans[k].bold
        direction == detect_text_direction(block_text)
    IN  IF block.type # 0 \/ block_text = << >> THEN << >>
        ELSE IF is_heading(block_text) /\ (max_font_size >= 14 \/ is_bold)
        THEN << New("HeadingBlock",
                    [level |-> PDF_determine_heading_level(max_font_size),
                     text |-> block_text, direction |-> direction,
                     position_hint |-> Some(PDF_position(number, << >>))]) >>
        ELSE << New("ParagraphBlock",
                    [text |-> block_text, direction |-> direction,
                     is_bold |-> is_bold,
                     position_hint |-> Some(PDF_position(number, << >>))]) >>

PDF_extract_text_blocks(page, number) ==
    Concat([b \in DOMAIN page.text_blocks |->
               PDF_text_block(page.text_blocks[b], number)])

\* image_utils.image_to_base64: a data URL; the payload of the model's
\* bytes "png" is PictureB64, of any other bytes BytesB64
image_to_base64(image_data, format) ==
    IF image_data = "" THEN << >>
    ELSE <<"data:",
           (IF format \in {"jpg", "jpeg"} THEN "image/jpeg"
            ELSE IF format = "gif" THEN "image/gif"
            ELSE IF format = "bmp" THEN "image/bmp"
            ELSE IF format = "webp" THEN "image/webp"
            ELSE IF format \in {"tiff", "tif"} THEN "image/tiff"
            ELSE IF format = "svg" THEN "image/svg+xml"
            ELSE "image/png"),
           ";base64", ",",
           (IF image_data = "png" THEN PictureB64 ELSE BytesB64)>>

\* _extract_images: every image in a try of its own; a failing one and one
\* without data are passed over.  The result is the blocks made from image
\* img_index on (from 1).
RECURSIVE PDF_extract_images(_, _, _, _)
PDF_extract_images(page, number, img_index, image_ids) ==
    IF img_index > Len(page.images) THEN << >>
    ELSE LET img == page.images[img_index] IN
         IF img.raises \/ img.base_image = None
         THEN PDF_extract_images(page, number, img_index + 1, image_ids)
         ELSE << New("ImageBlock",
                     [image_id |-> Head(image_ids),
                      image_data |-> Some(image_to_base64(img.base_image[1].image,
                                                          img.base_image[1].ext)),
                      image_format |-> Some(<<img.base_image[1].ext>>),
                      width |-> Some(img.base_image[1].width),
                      height |-> Some(img.base_image[1].height),
                      position_hint |->
                          Some(PDF_position(number,
                                            <<"_img_", ToString(img_index)>>))]) >>
              \o PDF_extract_images(page, number, img_index + 1, Tail(image_ids))

\* _extract_links: no call is guarded; the first link that raises ends the
\* extraction.
PDF_extract_links(page, number) ==
    LET uris == SelectSeq(page.links,
                          LAMBDA link : link.kind = "LINK_URI" /\ link.uri # << >>)
    IN  IF \E i \in DOMAIN uris : uris[i].raises
        THEN [ok |-> FALSE,
              error |-> [type |-> "RuntimeError", message |-> "get_text"]]
        ELSE [ok |-> TRUE,
              blocks |-> [i \in DOMAIN uris |->
                  New("LinkBlock",
                      [text |-> IF Strip(uris[i].text, Whitespace) # << >>
                                THEN Strip(uris[i].text, Whitespace)
                                ELSE uris[i].uri,
                       url |-> uris[i].uri,
                       position_hint |-> Some(PDF_position(number, << >>))])]]

\* The TableBlock of one table of the page, or none for a table without
\* data
PDF_table(table, number, table_index) ==
    LET rows == [r \in DOMAIN table.data |->
                    New("TableRow",
                        [cells |-> [c \in DOMAIN table.data[r] |->
                             New("TableCell",
                                 [content |-> clean_text(table.data[r][c]),
                                  is_header |-> (r = 1)])],
                         is_header_row |-> (r = 1)])]
    IN  IF rows = << >> THEN << >>
        ELSE << New("TableBlock",
                    [rows |-> rows, has_header |-> TRUE,
                     row_count |-> Len(rows),
                     column_count |-> Len(rows[1].cells),
                     position_hint |->
                         Some(PDF_position(number,
                                           <<"_table_", ToString(table_index)>>))]) >>

\* _extract_tables: one try around the whole loop; the tables made before
\* the first failure are kept, the loop ends there.
PDF_extract_tables(page, number) ==
    LET failing == {i \in DOMAIN page.tables : page.tables[i].raises}
        last == IF page.find_tables_raises THEN 0
                ELSE IF failing = {} THEN Len(page.tables)
                ELSE Smallest(failing) - 1
    IN  Concat([i \in 1..last |-> PDF_table(page.tables[i], number, i)])

\* The Page made of the blocks of the four kinds, or the exception of the
\* links
PDF_page(page_num, text_blocks, images, links, tables) ==
    IF ~links.ok THEN links
    ELSE [ok |-> TRUE,
          page |-> New("Page",
              [page_number |-> page_num,
               blocks |-> text_blocks \o images \o links.blocks \o tables,
               direction |-> detect_text_direction(
                                 Join(<<" ">>, [b \in DOMAIN text_blocks |->
                                                   text_blocks[b].text]))])]

PDF_extract_page(page, page_num, image_ids) ==
    PDF_page(page_num,
             PDF_extract_text_blocks(page, page_num),
             PDF_extract_images(page, page_num, 1, image_ids),
             PDF_extract_links(page, page_num),
             PDF_extract_tables(page, page_num))

\* The pages from page_num on, each with the image ids the pages before
\* it have left
RECURSIVE PDF_extract_pages(_, _, _)

\* The image ids left once the page first is made
PDF_ids_left(first, image_ids) ==
    SubSeq(image_ids,
           Len(SelectSeq(first.page.blocks, LAMBDA b : b.cls = "ImageBlock")) + 1,
           Len(image_ids))

PDF_pages_after(first, rest) ==
    IF ~rest.ok THEN rest
    ELSE [ok |-> TRUE, pages |-> <<first.page>> \o rest.pages]

PDF_pages_from(file, page_num, image_ids, first) ==
    IF ~first.ok THEN first
    ELSE PDF_pages_after(first,
             PDF_extract_pages(file, page_num + 1, PDF_ids_left(first, image_ids)))

PDF_extract_pages(file, page_num, image_ids) ==
    IF page_num > Len(file.pages) THEN [ok |-> TRUE, pages |-> << >>]
    ELSE PDF_pages_from(file, page_num, image_ids,
             PDF_extract_page(file.pages[page_num], page_num, image_ids))

\* extract() of the file named stem.pdf, last modified at mtime: the
\* Document, or the exception that leaves extract
PDF_texts(pages) ==
    SelectSeq(Concat([p \in DOMAIN pages |-> pages[p].blocks]),
              LAMBDA b : "text" \in DOMAIN b)

PDF_direction(texts) ==
    detect_text_direction(Join(<<" ">>, [b \in DOMAIN texts |-> texts[b].text]))

PDF_document(metadata, extracted) ==
    IF ~extracted.ok THEN extracted
    ELSE [ok |-> TRUE,
          document |-> New("Document",
              [title |-> metadata.title, metadata |-> metadata,
               pages |-> extracted.pages,
               direction |-> PDF_direction(PDF_texts(extracted.pages))])]

PDF_filename(stem) == stem \o <<".", "p", "d", "f">>

PDFExtractor_extract(file, stem, mtime, image_ids) ==
    PDF_document(
        New("Metadata",
            [title |-> Some(IF Truthy(file.metadata.title)
                            THEN file.metadata.title[1] ELSE PDF_filename(stem)),
             author |-> file.metadata.author,
             modified_date |-> Some(mtime),
             page_count |-> Some(Len(file.pages)),
             source_format |-> Some(<<"p", "d", "f">>),
             source_filename |-> Some(PDF_filename(stem))]),
        PDF_extract_pages(file, 1, image_ids))

---------------------------------------------------------------------------
(* src/schemas/document.py: the queries of Document *)

Blocks(doc) == Concat([p \in DOMAIN doc.pages |-> doc.pages[p].blocks])

CellsOf(block) == Concat([r \in DOMAIN block.rows |-> block.rows[r].cells])

get_all_text(doc) ==
    LET blocks == Blocks(doc) IN
    Join(<<"\n">>,
         Concat([b \in DOMAIN blocks |->
            IF "text" \in DOMAIN blocks[b] THEN <<blocks[b].text>>
            ELSE IF "items" \in DOMAIN blocks[b] THEN blocks[b].items
            ELSE IF blocks[b].cls = "TableBlock"
            THEN LET cells == CellsOf(blocks[b])
                 IN  [c \in DOMAIN cells |-> cells[c].content]
            ELSE << >>]))

get_all_links(doc) ==
    LET blocks == Blocks(doc) IN
    Concat([b \in DOMAIN blocks |->
        (IF "links" \in DOMAIN blocks[b] THEN blocks[b].links ELSE << >>)
        \o (IF blocks[b].cls = "LinkBlock"
            THEN <<New("Link", [text |-> blocks[b].text, url |-> blocks[b].url])>>
            ELSE IF blocks[b].cls = "TableBlock"
            THEN LET cells == CellsOf(blocks[b])
                 IN  Concat([c \in DOMAIN cells |-> cells[c].links])
            ELSE << >>)])

get_all_images(doc) == SelectSeq(Blocks(doc), LAMBDA b : b.cls = "ImageBlock")

get_all_tables(doc) == SelectSeq(Blocks(doc), LAMBDA b : b.cls = "TableBlock")

\* add_page: the page is appended as it is
add_page(doc, page) == [doc EXCEPT !.pages = Append(@, page)]

\* get_page: the first page with that number, or None
get_page(doc, page_number) ==
    LET found == {i \in DOMAIN doc.pages : doc.pages[i].page_number = page_number}
    IN  IF found = {} THEN None ELSE Some(doc.pages[Smallest(found)])

---------------------------------------------------------------------------
(* Documents whose text fields carry the characters HTML treats as markup.  *)

MarkupText == <<"<", "b", ">">>

MarkupLink ==
    New("Link", [text |-> <<"<">>, url |-> <<"\"", ">">>, start_index |-> Some(1),
                 end_index |-> Some(2)])

MarkupBlockPool ==
    { New("HeadingBlock", [level |-> 2, text |-> MarkupText,
                           links |-> <<MarkupLink>>]),
      New("ParagraphBlock", [text |-> <<"a", "&", "<">>, is_italic |-> TRUE]),
      New("ImageBlock", [image_id |-> <<"i">>, image_path |-> Some(<<"p">>),
                         caption |-> Some(MarkupText)]),
      New("ImageBlock", [image_id |-> <<"i">>, image_path |-> Some(MarkupText),
                         image_data |-> Some(<<"d">>),
                         alt_text |-> Some(<<">">>)]),
      New("ImageBlock", [image_id |-> <<"i">>, image_data |-> Some(MarkupText)]),
      New("TableBlock",
          [rows |-> << New("TableRow",
                           [cells |-> <<SampleCell(MarkupText, FALSE)>>]) >>,
           caption |-> Some(<<"<">>), row_count |-> 1, column_count |-> 1]),
      New("ListBlock", [items |-> << MarkupText, <<"'">> >>]),
      New("LinkBlock", [text |-> MarkupText, url |-> <<"u", ">">>]) }

MarkupDocuments ==
    { New("Document",
          [title |-> Some(MarkupText),
           metadata |-> New("Metadata", [author |-> Some(<<"<">>),
                                         keywords |-> << <<">">>, <<"k">> >>]),
           pages |-> IF two THEN <<PageOf(1, blocks),
                                   New("Page", [page_number |-> 2,
                                                title |-> Some(MarkupText)])>>
                     ELSE <<PageOf(1, blocks)>>])
        : blocks \in SeqsUpTo(MarkupBlockPool, MaxBlocks), two \in BOOLEAN }

---------------------------------------------------------------------------
(* The agent's initial state (DocumentAgent.__init__) *)

NoDocument == [loaded |-> FALSE]
NotCalled == [called |-> FALSE]

AgentInit ==
    /\ document = NoDocument
    /\ source_path = None
    /\ written = << >>
    /\ clock = 0
    /\ result = NotCalled

---------------------------------------------------------------------------
(* src/agent.py: DocumentAgent.  result is the outcome of the last call:    *)
(* its name and arguments, and the value it returned or the exception it    *)
(* raised.  written holds the files that call wrote, clock is the time.     *)

EXTRACTOR_KEYS ==
    <<".pdf", ".docx", ".pptx", ".xlsx", ".xlsm", ".txt", ".md", ".markdown">>

EXTRACTOR_MAP ==
    [ext \in {EXTRACTOR_KEYS[i] : i \in DOMAIN EXTRACTOR_KEYS} |->
        CASE ext = ".pdf" -> "PDFExtractor"
          [] ext = ".docx" -> "DocxExtractor"
          [] ext = ".pptx" -> "PptxExtractor"
          [] ext \in {".xlsx", ".xlsm"} -> "XlsxExtractor"
          [] ext = ".txt" -> "TextExtractor"
          [] ext \in {".md", ".markdown"} -> "MarkdownExtractor"]

\* A converter table that also has an entry for json.
CONVERTER_MAP_with_json ==
    [format \in {"html", "docx", "markdown", "md", "json"} |->
        CASE format = "html" -> "HTMLConverter"
          [] format = "docx" -> "DocxConverter"
          [] format \in {"markdown", "md", "json"} -> "MarkdownConverter"]

CONVERTER_MAP ==
    [format \in {"html", "docx", "markdown", "md"} |->
        CASE format = "html" -> "HTMLConverter"
          [] format = "docx" -> "DocxConverter"
          [] format \in {"markdown", "md"} -> "MarkdownConverter"]

\* str.lower() on the names the model uses
Lower(name) ==
    CASE name = ".MD" -> ".md"
      [] name = "HTML" -> "html"
      [] name = "Md" -> "md"
      [] OTHER -> name

\* The paths load is called with: Path.suffix and Path.exists() of each.
LoadPaths ==
    {"a.pdf", "B.MD", "old.doc", "README", "bad.docx", "gone.pdf", "gone.xyz"}

Suffix(path) ==
    CASE path \in {"a.pdf", "gone.pdf"} -> ".pdf"
      [] path = "B.MD" -> ".MD"
      [] path = "old.doc" -> ".doc"
      [] path = "bad.docx" -> ".docx"
      [] path = "gone.xyz" -> ".xyz"
      [] path = "out.txt" -> ".txt"
      [] OTHER -> ""

Exists(path) == path \in {"a.pdf", "B.MD", "old.doc", "README", "bad.docx"}

PdfDocument ==
    New("Document",
        [title |-> Some(<<"T">>),
         metadata |-> New("Metadata", [source_format |-> Some(<<"pdf">>),
                                       source_filename |-> Some(<<"a.pdf">>)]),
         pages |-> <<PageOf(1, << New("HeadingBlock",
                                      [level |-> 1, text |-> <<"a", "b">>,
                                       links |-> <<SampleLink>>]),
                                  New("ImageBlock",
                                      [image_id |-> <<"i">>,
                                       image_data |-> Some(<<PictureB64>>),
                                       caption |-> Some(<<"c">>)]) >>)>>])

MdDocument ==
    New("Document",
        [metadata |-> New("Metadata", [source_format |-> Some(<<"md">>)]),
         pages |-> <<PageOf(1, << New("ParagraphBlock",
                                      [text |-> <<"HE_ALEF">>,
                                       direction |-> "rtl"]),
                                  New("TableBlock",
                                      [rows |-> << New("TableRow",
                                           [cells |-> <<SampleCell(<<"a">>, TRUE),
                                                        SampleCell(<<"<">>, TRUE)>>,
                                            is_header_row |-> TRUE]) >>,
                                       has_header |-> TRUE, row_count |-> 1,
                                       column_count |-> 2]) >>),
                     PageOf(2, << New("ListBlock", [items |-> << <<"x">> >>]) >>)>>,
         direction |-> "rtl"])

\* extractor_class(file_path).extract() on the files that exist
Extract(path) ==
    CASE path = "a.pdf" -> [ok |-> TRUE, document |-> PdfDocument]
      [] path = "B.MD" -> [ok |-> TRUE, document |-> MdDocument]
      [] OTHER -> [ok |-> FALSE,
                   error |-> [type |-> "PackageNotFoundError",
                              message |-> "Package not found"]]

\* The arguments of load_from_json and load_from_dict: a serialized
\* document, and an object whose page lacks the required page_number.
JsonDocument ==
    New("Document",
        [title |-> Some(<<"J">>),
         pages |-> <<PageOf(1, << New("LinkBlock",
                                      [text |-> <<"a">>, url |-> <<"u">>]) >>)>>])

JsonInputs == {Dump(JsonDocument), [pages |-> <<[blocks |-> << >>]>>]}

from_dict(data) == Validate("Document", data)

\* The outcome of from_json and from_dict on each of these arguments
FromJsonOutcome == [json_str \in JsonInputs |-> from_json(json_str)]
FromDictOutcome == [data \in JsonInputs |-> from_dict(data)]

NoDocumentLoaded ==
    [type |-> "ValueError", message |-> "No document loaded. Call load() first."]

Return(op, args, value) ==
    [called |-> TRUE, op |-> op, args |-> args, ok |-> TRUE, value |-> value]

Raise(op, args, error) ==
    [called |-> TRUE, op |-> op, args |-> args, ok |-> FALSE, error |-> error]

\* The checks of load with the file type looked at before the file itself.
LoadCheck_suffix_first(file_path) ==
    IF Lower(Suffix(file_path)) \notin DOMAIN EXTRACTOR_MAP
    THEN Some([type |-> "ValueError", message |-> "Unsupported file type",
               ext |-> Lower(Suffix(file_path)), supported |-> EXTRACTOR_KEYS])
    ELSE IF ~Exists(file_path)
    THEN Some([type |-> "FileNotFoundError", message |-> "File not found",
               path |-> file_path])
    ELSE None

\* load: the checks made before an extractor is chosen
LoadCheck(file_path) ==
    IF ~Exists(file_path)
    THEN Some([type |-> "FileNotFoundError", message |-> "File not found",
               path |-> file_path])
    ELSE IF Lower(Suffix(file_path)) \notin DOMAIN EXTRACTOR_MAP
    THEN Some([type |-> "ValueError", message |-> "Unsupported file type",
               ext |-> Lower(Suffix(file_path)), supported |-> EXTRACTOR_KEYS])
    ELSE None

Load(file_path) ==
    LET args == [file_path |-> file_path]
        refused == LoadCheck(file_path)
        extracted == Extract(file_path)
    IN  /\ IF refused # None
           THEN /\ result' = [extractor |-> None] @@ Raise("load", args, refused[1])
                /\ UNCHANGED <<document, source_path>>
           ELSE LET extractor == Some(EXTRACTOR_MAP[Lower(Suffix(file_path))]) IN
                IF ~extracted.ok
                THEN /\ result' = [extractor |-> extractor]
                                      @@ Raise("load", args, extracted.error)
                     /\ UNCHANGED <<document, source_path>>
                ELSE /\ document' = [loaded |-> TRUE, doc |-> extracted.document]
                     /\ source_path' = Some(file_path)
                     /\ result' = [extractor |-> extractor]
                                      @@ Return("load", args, extracted.document)
        /\ written' = << >>
        /\ UNCHANGED <<clock, input, output>>

ValidationError == [type |-> "ValidationError", message |-> "validation error for Document"]

\* load_from_json returning the document without keeping it.
LoadFromJson_not_kept(json_str) ==
    LET args == [json_str |-> json_str]
        validated == FromJsonOutcome[json_str]
    IN  /\ result' = IF validated.ok
                     THEN Return("load_from_json", args, validated.value)
                     ELSE Raise("load_from_json", args, ValidationError)
        /\ written' = << >>
        /\ UNCHANGED <<document, source_path, clock, input, output>>

LoadFromJson(json_str) ==
    LET args == [json_str |-> json_str]
        validated == FromJsonOutcome[json_str]
    IN  /\ IF validated.ok
           THEN /\ document' = [loaded |-> TRUE, doc |-> validated.value]
                /\ result' = Return("load_from_json", args, validated.value)
           ELSE /\ result' = Raise("load_from_json", args, ValidationError)
                /\ UNCHANGED document
        /\ written' = << >>
        /\ UNCHANGED <<source_path, clock, input, output>>

\* load_from_dict dropping the document held before it validates the data.
LoadFromDict_dropped_first(data) ==
    LET args == [data |-> data]
        validated == FromDictOutcome[data]
    IN  /\ IF validated.ok
           THEN /\ document' = [loaded |-> TRUE, doc |-> validated.value]
                /\ result' = Return("load_from_dict", args, validated.value)
           ELSE /\ result' = Raise("load_from_dict", args, ValidationError)
                /\ document' = NoDocument
        /\ written' = << >>
        /\ UNCHANGED <<source_path, clock, input, output>>

LoadFromDict(data) ==
    LET args == [data |-> data]
        validated == FromDictOutcome[data]
    IN  /\ IF validated.ok
           THEN /\ document' = [loaded |-> TRUE, doc |-> validated.value]
                /\ result' = Return("load_from_dict", args, validated.value)
           ELSE /\ result' = Raise("load_from_dict", args, ValidationError)
                /\ UNCHANGED document
        /\ written' = << >>
        /\ UNCHANGED <<source_path, clock, input, output>>

\* The checks of export with the format looked at before the document.
ExportCheck_format_first(loaded, format) ==
    IF Lower(format) \notin DOMAIN CONVERTER_MAP
    THEN Some([type |-> "ValueError", message |-> "Unsupported export format",
               format |-> Lower(format), supported |-> DOMAIN CONVERTER_MAP])
    ELSE IF ~loaded THEN Some(NoDocumentLoaded)
    ELSE None

\* export: the checks made before a converter is chosen
ExportCheck(loaded, format) ==
    IF ~loaded THEN Some(NoDocumentLoaded)
    ELSE IF Lower(format) \notin DOMAIN CONVERTER_MAP
    THEN Some([type |-> "ValueError", message |-> "Unsupported export format",
               format |-> Lower(format), supported |-> DOMAIN CONVERTER_MAP])
    ELSE None

\* The keyword parameters of each converter's __init__, and their defaults
Parameters(converter_class) ==
    CASE converter_class = "HTMLConverter" -> {"include_styles", "embed_images"}
      [] converter_class = "MarkdownConverter" ->
            {"include_frontmatter", "embed_images"}
      [] converter_class = "DocxConverter" -> {"embed_images"}

Option(kwargs, name, default) ==
    IF name \in DOMAIN kwargs THEN kwargs[name] ELSE default

\* converter_class(document, **kwargs).convert() at the time now
Convert(converter_class, doc, kwargs, now) ==
    IF ~(DOMAIN kwargs \subseteq Parameters(converter_class))
    THEN [ok |-> FALSE,
          error |-> [type |-> "TypeError",
                     message |-> "unexpected keyword argument"]]
    ELSE CASE converter_class = "HTMLConverter" ->
                [ok |-> TRUE,
                 content |-> [format |-> "html",
                              html |-> HTMLConverter_convert(doc,
                                  Option(kwargs, "include_styles", TRUE),
                                  Option(kwargs, "embed_images", TRUE))]]
           [] converter_class = "MarkdownConverter" ->
                [ok |-> TRUE,
                 content |-> [format |-> "markdown",
                              markdown |-> MarkdownConverter_convert(doc,
                                  Option(kwargs, "include_frontmatter", TRUE),
                                  Option(kwargs, "embed_images", FALSE))]]
           [] converter_class = "DocxConverter" ->
                LET package == DocxConverter_convert(doc,
                                   Option(kwargs, "embed_images", TRUE), now)
                IN  IF package.ok
                    THEN [ok |-> TRUE,
                          content |-> [format |-> "docx",
                                       docx |-> [body |-> package.body,
                                                 stamp |-> package.stamp]]]
                    ELSE package

\* save(): the file at output_path holds the content afterwards
Save(fs, output_path, content) == (output_path :> content) @@ fs

Export(format, output_path, kwargs) ==
    LET args == [format |-> format, output_path |-> output_path,
                 kwargs |-> kwargs]
        refused == ExportCheck(document.loaded, format)
        converted == Convert(CONVERTER_MAP[Lower(format)], document.doc, kwargs,
                             clock)
    IN  /\ IF refused # None
           THEN /\ result' = Raise("export", args, refused[1])
                /\ written' = << >>
           ELSE IF ~converted.ok
           THEN /\ result' = Raise("export", args, converted.error)
                /\ written' = << >>
           ELSE IF output_path # None /\ output_path[1] # ""
           THEN /\ written' = Save(<< >>, output_path[1], converted.content)
                /\ result' = Return("export", args, output_path[1])
           ELSE /\ result' = Return("export", args, converted.content)
                /\ written' = << >>
        /\ UNCHANGED <<document, source_path, clock, input, output>>

ExportToJson(output_path) ==
    LET args == [output_path |-> output_path]
        json_str == [format |-> "json", json |-> to_json(document.doc)]
    IN  /\ IF ~document.loaded
           THEN /\ result' = Raise("export_to_json", args, NoDocumentLoaded)
                /\ written' = << >>
           ELSE IF output_path # None /\ output_path[1] # ""
           THEN /\ written' = Save(<< >>, output_path[1], json_str)
                /\ result' = Return("export_to_json", args, output_path[1])
           ELSE /\ result' = Return("export_to_json", args, json_str)
                /\ written' = << >>
        /\ UNCHANGED <<document, source_path, clock, input, output>>

get_summary(doc) ==
    [title |-> doc.title,
     page_count |-> Len(doc.pages),
     total_blocks |-> Len(Blocks(doc)),
     image_count |-> Len(get_all_images(doc)),
     table_count |-> Len(get_all_tables(doc)),
     link_count |-> Len(get_all_links(doc)),
     direction |-> doc.direction,
     source_format |-> doc.metadata.source_format,
     source_filename |-> doc.metadata.source_filename]

\* What each query returns on the document held
Answer(op, doc) ==
    CASE op = "get_text" -> get_all_text(doc)
      [] op = "get_links" -> get_all_links(doc)
      [] op = "get_images" -> get_all_images(doc)
      [] op = "get_tables" -> get_all_tables(doc)
      [] op = "get_metadata" -> Dump(doc.metadata)
      [] op = "get_summary" -> get_summary(doc)

Query(op) ==
    /\ result' = IF ~document.loaded THEN Raise(op, << >>, NoDocumentLoaded)
                 ELSE Return(op, << >>, Answer(op, document.doc))
    /\ written' = << >>
    /\ UNCHANGED <<document, source_path, clock, input, output>>

GetText == Query("get_text")
GetLinks == Query("get_links")
GetImages == Query("get_images")
GetTables == Query("get_tables")
GetMetadata == Query("get_metadata")
GetSummary == Query("get_summary")

SetTitle(title) ==
    LET args == [title |-> title] IN
    /\ IF ~document.loaded
       THEN /\ result' = Raise("set_title", args, NoDocumentLoaded)
            /\ UNCHANGED document
       ELSE /\ document' =
                [document EXCEPT !.doc.title = Some(title),
                                 !.doc.metadata.title = Some(title)]
            /\ result' = Return("set_title", args, None)
    /\ written' = << >>
    /\ UNCHANGED <<source_path, clock, input, output>>

SetDirection(direction) ==
    LET args == [direction |-> direction] IN
    /\ IF ~document.loaded
       THEN /\ result' = Raise("set_direction", args, NoDocumentLoaded)
            /\ UNCHANGED document
       ELSE IF direction \notin TextDirections
       THEN /\ result' = Raise("set_direction", args,
                               [type |-> "ValueError",
                                message |-> "not a valid TextDirection"])
            /\ UNCHANGED document
       ELSE /\ document' = [document EXCEPT !.doc.direction = direction]
            /\ result' = Return("set_direction", args, None)
    /\ written' = << >>
    /\ UNCHANGED <<source_path, clock, input, output>>

\* Time passes between calls.
Tick ==
    /\ clock < MaxClock
    /\ clock' = clock + 1
    /\ UNCHANGED <<document, source_path, written, result, input, output>>

ExportFormats == {"html", "HTML", "docx", "markdown", "md", "json", "pdf"}
OutputPaths == {None, Some(""), Some("out.bin")}
KwargsPool == {<< >>, [include_styles |-> FALSE]}
NewTitles == {<<"N">>}
DirectionNames == {"rtl", "up"}

Init ==
    /\ AgentInit
    /\ input = NotCalled
    /\ output = NotCalled

Next ==
    \/ \E file_path \in LoadPaths : Load(file_path)
    \/ \E json_str \in JsonInputs : LoadFromJson(json_str)
    \/ \E data \in JsonInputs : LoadFromDict(data)
    \/ \E format \in ExportFormats, output_path \in OutputPaths,
          kwargs \in KwargsPool : Export(format, output_path, kwargs)
    \/ \E output_path \in OutputPaths : ExportToJson(output_path)
    \/ GetText
    \/ GetLinks
    \/ GetImages
    \/ GetTables
    \/ GetMetadata
    \/ GetSummary
    \/ \E title \in NewTitles : SetTitle(title)
    \/ \E direction \in DirectionNames : SetDirection(direction)
    \/ Tick

Spec == Init /\ [][Next]_vars

DocumentOps ==
    {"export", "export_to_json", "get_text", "get_links", "get_images",
     "get_tables", "get_metadata", "get_summary", "set_title", "set_direction"}

QueryOps ==
    {"get_text", "get_links", "get_images", "get_tables", "get_metadata",
     "get_summary"}

LoadOps == {"load", "load_from_json", "load_from_dict"}

HasPath(output_path) == output_path # None /\ output_path[1] # ""

\* C1: a call of export, export_to_json, a query or a setter on an agent
\* that holds no document raises the no-document-loaded error, whatever its
\* arguments (an unsupported export format included), writes nothing, and
\* the agent still holds no document afterwards.
C1_NoDocumentLoaded ==
    [][(~document.loaded /\ result'.called /\ clock' = clock
            /\ result'.op \in DocumentOps)
        => /\ ~result'.ok
           /\ result'.error = NoDocumentLoaded
           /\ ~document'.loaded
           /\ written' = << >>]_vars

\* export("pdf") was called on an agent holding no document, and raised the
\* no-document-loaded error.
C1_Witness ==
    /\ ~document.loaded
    /\ result.called /\ result.op = "export" /\ result.args.format = "pdf"
    /\ ~result.ok /\ result.error = NoDocumentLoaded

\* C2: load(path) raises the not-found error whenever the path does not
\* exist, whatever its extension, and the unsupported-format error, naming
\* every key of the extractor table, whenever the path exists and its
\* lower-cased extension is no key of the table; no extractor is made in
\* either case.
C2_LoadRefusals ==
    (result.called /\ result.op = "load") =>
        LET path == result.args.file_path IN
        /\ ~Exists(path) =>
              /\ ~result.ok
              /\ result.error.type = "FileNotFoundError"
              /\ result.extractor = None
        /\ (Exists(path) /\ Lower(Suffix(path)) \notin DOMAIN EXTRACTOR_MAP) =>
              /\ ~result.ok
              /\ result.error.type = "ValueError"
              /\ result.error.message = "Unsupported file type"
              /\ {result.error.supported[i] : i \in DOMAIN result.error.supported}
                    = DOMAIN EXTRACTOR_MAP
              /\ result.extractor = None

\* load was called on a missing path whose extension is not supported, and
\* raised the not-found error.
C2_Witness ==
    /\ result.called /\ result.op = "load"
    /\ result.args.file_path = "gone.xyz"
    /\ ~result.ok /\ result.error.type = "FileNotFoundError"

\* C3: a successful load, load_from_json or load_from_dict leaves the agent
\* holding the very document it returned, a failed one leaves the document
\* held as it was, and every query and export that follows answers from the
\* document held.
C3_HoldsLastLoaded ==
    [][(result'.called /\ clock' = clock) =>
        /\ (result'.op \in LoadOps /\ result'.ok) =>
              document' = [loaded |-> TRUE, doc |-> result'.value]
        /\ (result'.op \in LoadOps /\ ~result'.ok) => document' = document
        /\ (result'.op \in QueryOps /\ result'.ok) =>
              /\ document' = document
              /\ result'.value = Answer(result'.op, document.doc)
        /\ (result'.op = "export" /\ result'.ok
                /\ ~HasPath(result'.args.output_path)) =>
              /\ document' = document
              /\ result'.value =
                    Convert(CONVERTER_MAP[Lower(result'.args.format)],
                            document.doc, result'.args.kwargs, clock).content
        /\ (result'.op = "export_to_json" /\ result'.ok
                /\ ~HasPath(result'.args.output_path)) =>
              /\ document' = document
              /\ result'.value.json = to_json(document.doc)]_vars

\* After load("a.pdf") and then load_from_json, get_text answered with the
\* text of the document read from JSON.
C3_Witness ==
    /\ source_path = Some("a.pdf")
    /\ document.loaded /\ document.doc = JsonDocument
    /\ result.called /\ result.op = "get_text" /\ result.ok
    /\ result.value = <<"a">>

SupportedFormats == {"html", "docx", "markdown", "md"}

UnsupportedFormat(r) ==
    ~r.ok /\ r.error.message = "Unsupported export format"

\* C4 as stated: with a document loaded, export dispatches for html, docx,
\* markdown, md and json, and raises the unsupported-format error only for
\* names outside that set.
C4_ExportDispatchesJson ==
    (result.called /\ result.op = "export" /\ document.loaded) =>
        (UnsupportedFormat(result)
            <=> Lower(result.args.format) \notin SupportedFormats \cup {"json"})

\* C4 amended: with a document loaded, export raises the unsupported-format
\* error exactly for the names whose lower-cased form is not html, docx,
\* markdown or md (json among them); html goes to the HTML converter, docx
\* to the DOCX converter, markdown and md both to the Markdown converter.
C4_ExportDispatch ==
    (result.called /\ result.op = "export" /\ document.loaded) =>
        LET format == Lower(result.args.format) IN
        /\ UnsupportedFormat(result) <=> format \notin SupportedFormats
        /\ (result.ok /\ ~HasPath(result.args.output_path)) =>
              result.value.format =
                 CASE format = "html" -> "html"
                   [] format = "docx" -> "docx"
                   [] format \in {"markdown", "md"} -> "markdown"

\* export("json") was called with a document loaded and raised the
\* unsupported-format error.
C4_Witness ==
    /\ document.loaded
    /\ result.called /\ result.op = "export" /\ result.args.format = "json"
    /\ UnsupportedFormat(result)

\* What one call of export does: with a path it writes the file at the
\* path, and nothing else, with what the converter gives for the document
\* held at that time, and returns the path; without a path it returns that
\* content and writes no file.
ExportWritesOwnContent ==
    [][(result'.called /\ clock' = clock /\ result'.op = "export"
            /\ result'.ok) =>
        LET args == result'.args
            content == Convert(CONVERTER_MAP[Lower(args.format)], document.doc,
                               args.kwargs, clock).content
        IN  IF HasPath(args.output_path)
            THEN /\ result'.value = args.output_path[1]
                 /\ DOMAIN written' = {args.output_path[1]}
                 /\ written'[args.output_path[1]] = content
            ELSE /\ result'.value = content
                 /\ written' = << >>]_vars

\* C5: when export(format) has returned a content and export(format, path)
\* follows with the same format and options on the same document, the
\* second call returns the path and the file it writes holds exactly the
\* content the first call returned; the first call wrote no file.
C5_FileIsReturnedContent ==
    [][(/\ result.called /\ result'.called
        /\ result.op = "export" /\ result'.op = "export"
        /\ result.ok /\ result'.ok
        /\ ~HasPath(result.args.output_path)
        /\ HasPath(result'.args.output_path)
        /\ Lower(result'.args.format) = Lower(result.args.format)
        /\ result'.args.kwargs = result.args.kwargs
        /\ document' = document)
        => /\ written = << >>
           /\ result'.value = result'.args.output_path[1]
           /\ written'[result'.args.output_path[1]] = result.value]_vars

\* C8: exporting the document held, unchanged, a second time to the same
\* format with the same options and path gives the same returned value and
\* the same file content as the first time.
C8_SameOutputTwice ==
    [][(/\ result.called /\ result'.called
        /\ result.op \in {"export", "export_to_json"}
        /\ result'.op = result.op
        /\ result'.args = result.args
        /\ result.ok /\ result'.ok
        /\ document' = document)
        => /\ result'.value = result.value
           /\ written' = written]_vars

---------------------------------------------------------------------------
(* Specification SpecDirection: detect_text_direction applied to every text *)
(* of at most MaxTextLen characters.                                        *)

InitDirection ==
    /\ AgentInit
    /\ input \in SeqsUpTo(BidiAlphabet, MaxTextLen)
    /\ output = NotCalled

DetectDirection ==
    /\ output = NotCalled
    /\ output' = [called |-> TRUE, value |-> detect_text_direction(input)]
    /\ UNCHANGED <<input, agentVars>>

NextDirection == DetectDirection

SpecDirection == InitDirection /\ [][NextDirection]_vars

RtlCount(text) ==
    Cardinality({i \in DOMAIN text : BidiCategory(text[i]) \in {"R", "AL", "AN"}})
LtrCount(text) ==
    Cardinality({i \in DOMAIN text : BidiCategory(text[i]) = "L"})

\* C7: detect_text_direction(T) is rtl exactly when T has strictly more
\* characters of bidi category R, AL or AN than of category L; ties, text
\* with no such character and empty or whitespace-only text give ltr.
C7_DirectionMajority ==
    output.called =>
        /\ output.value \in {"rtl", "ltr"}
        /\ (output.value = "rtl") <=> (RtlCount(input) > LtrCount(input))

\* A mixed text with both kinds of characters was classified rtl.
C7_Witness ==
    /\ output.called
    /\ output.value = "rtl"
    /\ LtrCount(input) > 0

---------------------------------------------------------------------------
(* Specification SpecJson: every generated document is written with        *)
(* to_json and read back with from_json.                                    *)

InitJson ==
    /\ AgentInit
    /\ input \in GeneratedDocuments
    /\ output = NotCalled

ToJson ==
    /\ output = NotCalled
    /\ output' = [called |-> TRUE, stage |-> "json", json |-> to_json(input)]
    /\ UNCHANGED <<input, agentVars>>

FromJson ==
    /\ output.called /\ output.stage = "json"
    /\ output' = [called |-> TRUE, stage |-> "document", json |-> output.json,
                  back |-> from_json(output.json)]
    /\ UNCHANGED <<input, agentVars>>

NextJson == ToJson \/ FromJson

SpecJson == InitJson /\ [][NextJson]_vars

ClassesOf(doc) ==
    UNION {{doc.pages[p].blocks[b].cls : b \in DOMAIN doc.pages[p].blocks}
              : p \in DOMAIN doc.pages}

---------------------------------------------------------------------------
(* Specification SpecTable: the Markdown extractor's _parse_table on every  *)
(* run of at most MaxTableLines table lines.  The first line of a run       *)
(* starts with '|' (line 149); every further line starts with '|' or is     *)
(* made of whitespace, '|', ':' and '-' only (line 151).                    *)

TableLinePool ==
    { <<"|", "a", "|", "b", "|">>,
      <<"|", "a", "|">>,
      <<"|", " ", "a", " ", "|", "b">>,
      <<"|", "a", "|", "b", "|", "a", "|">>,
      <<"|", "-", "|", "-", "|">>,
      <<"|">>,
      <<"-", "-", "-">>,
      <<" ", "|">> }

IsTableRun(lines) ==
    /\ lines # << >>
    /\ lines[1][1] = "|"

InitTable ==
    /\ AgentInit
    /\ input \in {ls \in SeqsUpTo(TableLinePool, MaxTableLines) : IsTableRun(ls)}
    /\ output = NotCalled

ParseTable ==
    /\ output = NotCalled
    /\ output' = [called |-> TRUE, value |-> parse_table(input)]
    /\ UNCHANGED <<input, agentVars>>

NextTable == ParseTable

SpecTable == InitTable /\ [][NextTable]_vars

MaxCells(rows) ==
    CHOOSE m \in {Len(rows[i].cells) : i \in DOMAIN rows} :
        \A i \in DOMAIN rows : Len(rows[i].cells) <= m

\* C9: every TableBlock an extractor produces has row_count equal to the
\* number of its rows and column_count equal to the largest number of cells
\* in any of its rows, also when the rows differ in length.
C9_TableCounts ==
    (output.called /\ output.value # None) =>
        LET table == output.value[1] IN
        /\ table.row_count = Len(table.rows)
        /\ table.column_count = MaxCells(table.rows)

---------------------------------------------------------------------------
(* Specification SpecHtml: HTMLConverter(document, include_styles,          *)
(* embed_images).convert() on documents with markup characters in their     *)
(* text fields.                                                             *)

InitHtml ==
    /\ AgentInit
    /\ input \in [document : MarkupDocuments, include_styles : BOOLEAN,
                  embed_images : BOOLEAN]
    /\ output = NotCalled

ConvertHtml ==
    /\ output = NotCalled
    /\ output' = [called |-> TRUE, stage |-> "html",
                  html |-> HTMLConverter_convert(input.document,
                                                 input.include_styles,
                                                 input.embed_images)]
    /\ UNCHANGED <<input, agentVars>>

NextHtml == ConvertHtml

SpecHtml == InitHtml /\ [][NextHtml]_vars

\* C10: no '<' or '>' of the HTML output is a character copied from a text
\* field of the document: every such character arrives escaped.
C10_HtmlEscapesText ==
    (output.called /\ output.stage = "html") =>
        \A i \in DOMAIN output.html :
            ~(output.html[i].data /\ output.html[i].c \in {"<", ">"})

---------------------------------------------------------------------------
(* Specification SpecText: TextExtractor.extract on every file of at most   *)
(* MaxFileLines lines out of TextLinePool, with or without a final line     *)
(* break.                                                                   *)

TextLinePool ==
    { << >>, <<" ">>, <<"a">>, <<"a", " ", " ", "b">>, <<" ", "a">>, <<"A">>,
      <<"-", " ", "a">>, <<"HE_ALEF">> }

TextFiles ==
    {Join(<<"\n">>, lines) \o tail :
        lines \in SeqsUpTo(TextLinePool, MaxFileLines), tail \in {<< >>, <<"\n">>}}

InitText ==
    /\ AgentInit
    /\ input \in TextFiles
    /\ output = NotCalled

ExtractText ==
    /\ output = NotCalled
    /\ output' = [called |-> TRUE, stage |-> "txt",
                  document |-> TextExtractor_extract(input, <<"f">>, <<"m">>)]
    /\ UNCHANGED <<input, agentVars>>

NextText == ExtractText

SpecText == InitText /\ [][NextText]_vars

FirstLine(content) == SplitOn(content, {"\n"})[1]

\* C11: when the first line of the file is a non-empty text (shorter than
\* 80 characters, with no white space that cleaning would change), the
\* first block of the first page of the extracted document is a
\* HeadingBlock of level 1 whose text is exactly that line, whatever lines
\* follow.
C11_FirstLineHeading ==
    (/\ output.called /\ output.stage = "txt"
     /\ FirstLine(input) # << >> /\ Len(FirstLine(input)) < 80
     /\ clean_text(FirstLine(input)) = FirstLine(input)) =>
        LET blocks == output.document.pages[1].blocks IN
        /\ blocks # << >>
        /\ blocks[1].cls = "HeadingBlock"
        /\ blocks[1].level = 1
        /\ blocks[1].text = FirstLine(input)

---------------------------------------------------------------------------
(* Specification SpecMarkdown: MarkdownExtractor._parse_content on every    *)
(* file of at most MaxMdLines lines out of MdLinePool, with or without a    *)
(* final line break.                                                        *)

MdLinePool ==
    { << >>,
      <<"#", " ", "H">>,
      <<"#", "#", " ", "a">>,
      <<"-", " ", "a">>,
      <<"-", " ", "b">>,
      <<"1", ".", " ", "a">>,
      <<"-", " ", "1", "a">>,
      <<"a">>,
      <<"!", "[", "a", "]", "(", "b", ")">>,
      <<"|", "a", "|">> }

MdFiles ==
    {Join(<<"\n">>, lines) \o tail :
        lines \in SeqsUpTo(MdLinePool, MaxMdLines), tail \in {<< >>, <<"\n">>}}

MdImageIds == [i \in 1..(MaxMdLines + 1) |-> <<"i", "d", "AR_ONE">>]

InitMarkdown ==
    /\ AgentInit
    /\ input \in MdFiles
    /\ output = NotCalled

ParseMarkdown ==
    /\ output = NotCalled
    /\ output' = [called |-> TRUE, stage |-> "md",
                  blocks |-> MD_parse_content(input, MdImageIds)]
    /\ UNCHANGED <<input, agentVars>>

NextMarkdown == ParseMarkdown

SpecMarkdown == InitMarkdown /\ [][NextMarkdown]_vars

\* A heading line: k '#' characters, white space, and a text
HashCount(line) == Len(line) - Len(SkipWhile(line, {"#"}))
HeadingText(line) == clean_text(SkipWhile(SkipWhile(line, {"#"}), Whitespace))
IsHeadingLine(line) ==
    /\ HashCount(line) \in 1..6
    /\ Len(line) > HashCount(line) /\ line[HashCount(line) + 1] \in Whitespace
    /\ HeadingText(line) # << >>

\* A bullet line: '-', '*' or '+', white space, and a text
BulletText(line) ==
    clean_text(SkipWhile(Tail(SkipWhile(line, Whitespace)), Whitespace))
IsBulletLine(line) ==
    LET r == SkipWhile(line, Whitespace) IN
    /\ Len(r) >= 2 /\ r[1] \in {"-", "*", "+"} /\ r[2] \in Whitespace
    /\ BulletText(line) # << >>

IsBlankLine(line) == Strip(line, Whitespace) = << >>

\* lines[i..j] is a maximal run of contiguous bullet lines
IsBulletRun(lines, i, j) ==
    /\ i <= j
    /\ \A k \in i..j : IsBulletLine(lines[k])
    /\ i = 1 \/ ~IsBulletLine(lines[i - 1])
    /\ j = Len(lines) \/ ~IsBulletLine(lines[j + 1])

\* C12: every line of k '#' characters (1 <= k <= 6), white space and text
\* yields a HeadingBlock of level k with that text; every maximal run of
\* contiguous bullet lines yields a ListBlock whose items are the texts of
\* its lines in order, with is_ordered false; and a file of heading lines,
\* bullet lines and blank lines only yields exactly one block per heading
\* line and one per bullet run, none for the blank lines.
C12_MarkdownBlocks ==
    (output.called /\ output.stage = "md") =>
        LET lines == SplitOn(input, {"\n"})
            blocks == output.blocks
            runs == {r \in (DOMAIN lines) \X (DOMAIN lines) :
                        IsBulletRun(lines, r[1], r[2])}
            headings == {i \in DOMAIN lines : IsHeadingLine(lines[i])}
        IN  /\ \A i \in headings :
                  \E b \in DOMAIN blocks :
                      /\ blocks[b].cls = "HeadingBlock"
                      /\ blocks[b].level = HashCount(lines[i])
                      /\ blocks[b].text = HeadingText(lines[i])
            /\ \A r \in runs :
                  \E b \in DOMAIN blocks :
                      /\ blocks[b].cls = "ListBlock"
                      /\ blocks[b].items =
                            [k \in 1..(r[2] - r[1] + 1) |->
                                BulletText(lines[r[1] + k - 1])]
                      /\ blocks[b].is_ordered = FALSE
            /\ (\A i \in DOMAIN lines :
                    IsHeadingLine(lines[i]) \/ IsBulletLine(lines[i])
                        \/ IsBlankLine(lines[i]))
                   => Len(blocks) = Cardinality(headings) + Cardinality(runs)

\* The file "# H\n\n- a\n- b\n" of the specification's example yields
\* exactly two blocks: the heading and the list.
MdExampleParsed ==
    (/\ output.called /\ output.stage = "md"
     /\ input = <<"#", " ", "H", "\n", "\n", "-", " ", "a", "\n",
                  "-", " ", "b", "\n">>) =>
        /\ Len(output.blocks) = 2
        /\ output.blocks[1].cls = "HeadingBlock"
        /\ output.blocks[1].level = 1 /\ output.blocks[1].text = <<"H">>
        /\ output.blocks[2].cls = "ListBlock"
        /\ output.blocks[2].items = << <<"a">>, <<"b">> >>
        /\ output.blocks[2].is_ordered = FALSE

---------------------------------------------------------------------------
(* Specification SpecHtmlDirection: HTMLConverter.convert() on one-page     *)
(* documents whose blocks, page and document take every direction.          *)

DirectionBlocks(d) ==
    { New("HeadingBlock", [level |-> 1, text |-> <<"a">>, direction |-> d]),
      New("ParagraphBlock", [text |-> <<"a">>, direction |-> d]),
      New("ImageBlock", [image_id |-> <<"i">>, image_path |-> Some(<<"p">>),
                         direction |-> d]),
      New("TableBlock",
          [rows |-> << New("TableRow", [cells |-> <<SampleCell(<<"a">>, FALSE)>>]) >>,
           row_count |-> 1, column_count |-> 1, direction |-> d]),
      New("ListBlock", [items |-> << <<"a">> >>, direction |-> d]),
      New("LinkBlock", [text |-> <<"a">>, url |-> <<"u">>, direction |-> d]) }

DirectionBlockPool ==
    UNION {DirectionBlocks(d) : d \in TextDirections}
    \cup { New("ImageBlock", [image_id |-> <<"i">>, direction |-> "rtl"]),
           New("PositionedTextBlock", [text |-> <<"a">>, direction |-> "rtl"]) }

DirectionDocuments ==
    { New("Document",
          [pages |-> << New("Page", [page_number |-> 1, blocks |-> blocks,
                                     direction |-> page_direction]) >>,
           direction |-> direction])
        : blocks \in SeqsUpTo(DirectionBlockPool, MaxBlocks),
          page_direction \in TextDirections, direction \in TextDirections }

InitHtmlDirection ==
    /\ AgentInit
    /\ input \in [document : DirectionDocuments, include_styles : {FALSE},
                  embed_images : BOOLEAN]
    /\ output = NotCalled

SpecHtmlDirection == InitHtmlDirection /\ [][NextHtml]_vars

\* The literal tokens that open the wrapping element of a block
IsWrapperStart(html, i) ==
    /\ ~html[i].data
    /\ \/ html[i].c \in {"<h", "<p", "<figure>", "<table>", "<p><a href=\""}
       \/ /\ html[i].c = "<" /\ i < Len(html)
          /\ ~html[i + 1].data /\ html[i + 1].c \in {"ul", "ol"}

\* The opening tag that starts at item i has the attribute dir="rtl"
CarriesRtl(html, i) ==
    \E k \in {i + 1, i + 2} :
        /\ k <= Len(html) /\ ~html[k].data
        /\ html[k].c = " dir=\"rtl\" class=\"rtl\""

\* For every wrapping element from item i on, in order: does it carry rtl
RECURSIVE WrapperFlags(_, _)
WrapperFlags(html, i) ==
    IF i > Len(html) THEN << >>
    ELSE (IF IsWrapperStart(html, i) THEN <<CarriesRtl(html, i)>> ELSE << >>)
         \o WrapperFlags(html, i + 1)

\* The blocks the converter writes an element for
HasElement(block, embed_images) ==
    \/ block.cls \in {"HeadingBlock", "ParagraphBlock", "TableBlock",
                      "ListBlock", "LinkBlock"}
    \/ /\ block.cls = "ImageBlock"
       /\ \/ embed_images /\ Truthy(block.image_data)
          \/ Truthy(block.image_path)

RenderedBlocks(doc, embed_images) ==
    SelectSeq(Blocks(doc), LAMBDA block : HasElement(block, embed_images))

\* C13: in the HTML output, the wrapping element of a block carries
\* dir="rtl" if and only if the direction of that block is rtl, whatever
\* the directions of the page and of the document.
C13_BlockDirection ==
    (output.called /\ output.stage = "html") =>
        LET rendered == RenderedBlocks(input.document, input.embed_images) IN
        WrapperFlags(output.html, 1)
            = [b \in DOMAIN rendered |-> rendered[b].direction = "rtl"]

\* The same for the documents whose blocks are headings, paragraphs and
\* lists: there the attribute follows the direction of the block.
HtmlTextBlockDirection ==
    (/\ output.called /\ output.stage = "html"
     /\ \A b \in DOMAIN Blocks(input.document) :
            Blocks(input.document)[b].cls
                \in {"HeadingBlock", "ParagraphBlock", "ListBlock"}) =>
        WrapperFlags(output.html, 1)
            = [b \in DOMAIN Blocks(input.document) |->
                  Blocks(input.document)[b].direction = "rtl"]

---------------------------------------------------------------------------
(* Specification SpecMdTable: MarkdownConverter._convert_table on every     *)
(* TableBlock without caption of at most MaxTableRows rows of at most       *)
(* MaxRowCells cells.                                                       *)

CellContents == { << >>, <<"a">>, <<"a", "|", "b">>, <<"a", "\n", "b">> }

TableRows ==
    { New("TableRow", [cells |-> [i \in DOMAIN contents |->
                                     SampleCell(contents[i], FALSE)]])
        : contents \in SeqsUpTo(CellContents, MaxRowCells) }

InitMdTable ==
    /\ AgentInit
    /\ input \in { New("TableBlock", [rows |-> rows, row_count |-> Len(rows)])
                     : rows \in SeqsUpTo(TableRows, MaxTableRows) }
    /\ output = NotCalled

ConvertMdTable ==
    /\ output = NotCalled
    /\ output' = [called |-> TRUE, stage |-> "md_table",
                  markdown |-> MD_convert_table(input)]
    /\ UNCHANGED <<input, agentVars>>

NextMdTable == ConvertMdTable

SpecMdTable == InitMdTable /\ [][NextMdTable]_vars

\* The cells of a line of a pipe table: one less than its pipes
Pipes == {"| ", " | ", " |", "|"}
CellCount(line) == Len(SelectSeq(line, LAMBDA c : c \in Pipes)) - 1

\* The line of a table row padded to n cells
RowLine(row, n) ==
    <<"| ">>
    \o Join(<<" | ">>, [i \in 1..n |-> IF i <= Len(row.cells)
                                       THEN row.cells[i].content ELSE << >>])
    \o <<" |">>

\* C14: a TableBlock of n >= 1 rows without caption (some row having a
\* cell) converts to exactly n+1 lines: the first row, one separator row of
\* dashes, then the other rows in order; every line has as many cells as
\* the longest row, the missing cells empty.
C14_TableLines ==
    (/\ output.called /\ output.stage = "md_table"
     /\ input.rows # << >> /\ MaxCells(input.rows) >= 1) =>
        LET lines == SplitOn(output.markdown, {"\n"})
            n == Len(input.rows)
            cols == MaxCells(input.rows)
        IN  /\ Len(lines) = n + 1
            /\ \A l \in DOMAIN lines : CellCount(lines[l]) = cols
            /\ lines[1] = RowLine(input.rows[1], cols)
            /\ \A i \in DOMAIN lines[2] : lines[2][i] \in Pipes \cup {"-"}
            /\ \A r \in 2..n : lines[r + 1] = RowLine(input.rows[r], cols)

\* The same for the tables whose cells hold no '|' and no line break
MdPlainTableLines ==
    (/\ output.called /\ output.stage = "md_table"
     /\ input.rows # << >> /\ MaxCells(input.rows) >= 1
     /\ \A r \in DOMAIN input.rows : \A c \in DOMAIN input.rows[r].cells :
            \A i \in DOMAIN input.rows[r].cells[c].content :
                input.rows[r].cells[c].content[i] \notin {"|", "\n"}) =>
        LET lines == SplitOn(output.markdown, {"\n"})
            n == Len(input.rows)
            cols == MaxCells(input.rows)
        IN  /\ Len(lines) = n + 1
            /\ \A l \in DOMAIN lines : CellCount(lines[l]) = cols
            /\ lines[1] = RowLine(input.rows[1], cols)
            /\ \A i \in DOMAIN lines[2] : lines[2][i] \in Pipes \cup {"-"}
            /\ \A r \in 2..n : lines[r + 1] = RowLine(input.rows[r], cols)

---------------------------------------------------------------------------
(* Specification SpecOrder: each converter on documents of one or two       *)
(* pages whose blocks carry one mark each as their text: x, y, z on the     *)
(* first page, q on the second.                                             *)

OrderMarks == << <<"x">>, <<"y">>, <<"z">>, <<"q">> >>

OrderVariants ==
    {"HeadingBlock", "ParagraphBlock", "TableBlock", "ListBlock", "LinkBlock",
     "PositionedTextBlock"}

OrderBlock(variant, mark) ==
    CASE variant = "HeadingBlock" -> New(variant, [level |-> 2, text |-> mark])
      [] variant = "TableBlock" ->
            New(variant, [rows |-> << New("TableRow",
                                          [cells |-> <<SampleCell(mark, FALSE)>>]) >>,
                          row_count |-> 1, column_count |-> 1])
      [] variant = "ListBlock" -> New(variant, [items |-> <<mark>>])
      [] variant = "LinkBlock" -> New(variant, [text |-> mark, url |-> <<"u">>])
      [] OTHER -> New(variant, [text |-> mark])

OrderDocuments ==
    { New("Document",
          [pages |-> << PageOf(1, [b \in DOMAIN first |->
                                      OrderBlock(first[b], OrderMarks[b])]) >>
                     \o [p \in DOMAIN second |->
                            PageOf(2, << OrderBlock(second[p], OrderMarks[4]) >>)]])
        : first \in SeqsUpTo(OrderVariants, MaxOrderBlocks),
          second \in SeqsUpTo(OrderVariants, 1) }

InitOrder ==
    /\ AgentInit
    /\ input \in [document : OrderDocuments,
                  converter_class : {"HTMLConverter", "MarkdownConverter",
                                     "DocxConverter"}]
    /\ output = NotCalled

ConvertOrdered ==
    /\ output = NotCalled
    /\ output' = [called |-> TRUE, stage |-> "convert",
                  converted |-> Convert(input.converter_class, input.document,
                                        << >>, 0)]
    /\ UNCHANGED <<input, agentVars>>

NextOrder == ConvertOrdered

SpecOrder == InitOrder /\ [][NextOrder]_vars

\* The texts a DOCX package shows, call by call
DocxTexts(body) ==
    Concat([i \in DOMAIN body |->
        IF body[i].op = "table"
        THEN Concat([r \in DOMAIN body[i].cells |->
                 Concat([c \in DOMAIN body[i].cells[r] |->
                            body[i].cells[r][c].text])])
        ELSE IF body[i].op = "page_break" THEN << >>
        ELSE body[i].text])

\* The marks of a converted content, in the order they are written
MarksOf(content) ==
    LET IsMark(c) == \E m \in DOMAIN OrderMarks : OrderMarks[m] = <<c>> IN
    CASE content.format = "html" ->
            LET marks == SelectSeq(content.html, LAMBDA item : IsMark(item.c))
            IN  [i \in DOMAIN marks |-> marks[i].c]
      [] content.format = "markdown" -> SelectSeq(content.markdown, IsMark)
      [] content.format = "docx" -> SelectSeq(DocxTexts(content.docx.body), IsMark)

Handled(block) == block.cls # "PositionedTextBlock"

\* The document without the blocks no converter has a handler for
WithoutUnhandled(doc) ==
    [doc EXCEPT !.pages = [p \in DOMAIN doc.pages |->
        [doc.pages[p] EXCEPT !.blocks = SelectSeq(doc.pages[p].blocks, Handled)]]]

\* An HTML text from item i on without its empty lines: the line breaks
\* that follow a line break are left out
RECURSIVE DropEmptyLines(_, _)
DropEmptyLines(html, i) ==
    IF i > Len(html) THEN << >>
    ELSE (IF i > 1 /\ html[i] = NL[1] /\ html[i - 1] = NL[1] THEN << >>
          ELSE <<html[i]>>)
         \o DropEmptyLines(html, i + 1)

Compact(content) ==
    IF content.format = "html" THEN DropEmptyLines(content.html, 1)
    ELSE IF content.format = "markdown" THEN content.markdown
    ELSE content.docx.body

\* C15: every converter writes the pages in document order and the blocks
\* of a page in block order; a block of a variant without handler
\* (PositionedTextBlock) makes no call raise and adds nothing (in HTML
\* nothing but an empty line): the output is the one of the document
\* without that block, and the other blocks appear as usual.
C15_RenderOrder ==
    (output.called /\ output.stage = "convert") =>
        LET handled == SelectSeq(Blocks(input.document), Handled)
            alone == Convert(input.converter_class,
                             WithoutUnhandled(input.document), << >>, 0)
        IN  /\ output.converted.ok
            /\ MarksOf(output.converted.content)
                   = [i \in DOMAIN handled |->
                        Head(get_all_text(New("Document",
                            [pages |-> <<PageOf(1, <<handled[i]>>)>>])))]
            /\ Compact(output.converted.content) = Compact(alone.content)

\* A conversion of a page with a PositionedTextBlock between two blocks
\* that have a handler, and a second page
C15_Witness ==
    /\ output.called /\ output.stage = "convert"
    /\ input.converter_class = "DocxConverter"
    /\ Len(input.document.pages) = 2
    /\ Len(input.document.pages[1].blocks) = 3
    /\ input.document.pages[1].blocks[1].cls = "HeadingBlock"
    /\ input.document.pages[1].blocks[2].cls = "PositionedTextBlock"
    /\ input.document.pages[1].blocks[3].cls = "TableBlock"
    /\ output.converted.ok

---------------------------------------------------------------------------
(* Specification SpecPdf: PDFExtractor.extract on one-page files with up    *)
(* to MaxSubElements images, links and tables each, any of which may fail.  *)

PdfTextBlock ==
    [type |-> 0, lines |-> << << [text |-> <<"A", "b", "c">>, size |-> 14,
                                  bold |-> FALSE] >> >>]

PdfImages ==
    { [raises |-> FALSE,
       base_image |-> Some([image |-> "png", ext |-> "png", width |-> 1,
                            height |-> 1])],
      [raises |-> TRUE, base_image |-> None] }

PdfLinks ==
    { [raises |-> FALSE, kind |-> "LINK_URI", uri |-> <<"u">>, text |-> <<"a">>],
      [raises |-> TRUE, kind |-> "LINK_URI", uri |-> <<"v">>, text |-> << >>] }

PdfTables ==
    { [raises |-> FALSE, data |-> << << <<"a">>, <<"b">> >> >>],
      [raises |-> FALSE, data |-> << << <<"c">> >> >>],
      [raises |-> TRUE, data |-> << >>] }

PdfFiles ==
    { [metadata |-> [title |-> None, author |-> None],
       pages |-> << [text_blocks |-> <<PdfTextBlock>>, images |-> images,
                     links |-> links, find_tables_raises |-> FALSE,
                     tables |-> tables] >>]
        : images \in SeqsUpTo(PdfImages, MaxSubElements),
          links \in SeqsUpTo(PdfLinks, MaxSubElements),
          tables \in SeqsUpTo(PdfTables, MaxSubElements) }

PdfImageIds == [i \in 1..MaxSubElements |-> <<"i", "d", ToString(i)>>]

InitPdf ==
    /\ AgentInit
    /\ input \in PdfFiles
    /\ output = NotCalled

ExtractPdf ==
    /\ output = NotCalled
    /\ output' = [called |-> TRUE, stage |-> "pdf",
                  extracted |-> PDFExtractor_extract(input, <<"f">>, <<"m">>,
                                                     PdfImageIds)]
    /\ UNCHANGED <<input, agentVars>>

NextPdf == ExtractPdf

SpecPdf == InitPdf /\ [][NextPdf]_vars

\* The file without its failing images, links and tables
WithoutFailing(file) ==
    LET Good(e) == ~e.raises IN
    [file EXCEPT !.pages = [p \in DOMAIN file.pages |->
        [file.pages[p] EXCEPT !.images = SelectSeq(@, Good),
                              !.links = SelectSeq(@, Good),
                              !.tables = SelectSeq(@, Good)]]]

\* The blocks of a page without their position hints (which number the
\* images and tables of the file, the failing ones included)
Unplaced(blocks) == [b \in DOMAIN blocks |-> [blocks[b] EXCEPT !.position_hint = None]]

\* C16: when images, tables or links of a page fail, extract still returns
\* a Document, and its blocks are the ones extracted from the same file
\* without the failing sub-elements: nothing else is lost, the tables and
\* images after a failing one included.
C16_SkipOnlyFailing ==
    (output.called /\ output.stage = "pdf") =>
        LET clean == PDFExtractor_extract(WithoutFailing(input), <<"f">>, <<"m">>,
                                          PdfImageIds)
        IN  /\ output.extracted.ok
            /\ Unplaced(output.extracted.document.pages[1].blocks)
                   = Unplaced(clean.document.pages[1].blocks)

\* The same for the files whose only failures are images: the failing
\* images are passed over and nothing else changes.
PdfImageFailuresSkipped ==
    (/\ output.called /\ output.stage = "pdf"
     /\ \A p \in DOMAIN input.pages :
            /\ \A i \in DOMAIN input.pages[p].links : ~input.pages[p].links[i].raises
            /\ \A i \in DOMAIN input.pages[p].tables : ~input.pages[p].tables[i].raises) =>
        LET clean == PDFExtractor_extract(WithoutFailing(input), <<"f">>, <<"m">>,
                                          PdfImageIds)
        IN  /\ output.extracted.ok
            /\ Unplaced(output.extracted.document.pages[1].blocks)
                   = Unplaced(clean.document.pages[1].blocks)

---------------------------------------------------------------------------
(* Specification SpecHandles: the file handle of one call of extract or     *)
(* save, statement by statement.  A call is a sequence of steps:            *)
(*   open    the file is opened and the handle kept                         *)
(*   read    the library opens the file and reads it; it keeps the file     *)
(*           open afterwards when input.lazy (an openpyxl workbook that     *)
(*           holds on to its archive, a Pillow image of several frames),    *)
(*           and closes it otherwise                                        *)
(*   work    statements that do not touch the handle                        *)
(*   close   the handle is closed                                           *)
(* A step with guarded = TRUE stands inside a with block or a try whose     *)
(* finally closes the handle: an exception raised there closes it on the    *)
(* way out.  input.fault is the step that raises, 0 for none.               *)

HandleStep(do, guarded) == [do |-> do, guarded |-> guarded]

\* PDFExtractor.extract: fitz.open, then try ... finally doc.close()
PdfSteps ==
    << HandleStep("open", FALSE), HandleStep("work", TRUE),
       HandleStep("work", TRUE), HandleStep("work", TRUE),
       HandleStep("close", FALSE) >>

\* XlsxExtractor.extract: load_workbook, metadata, sheets, direction,
\* wb.close(), Document(...)
XlsxSteps ==
    << HandleStep("read", FALSE), HandleStep("work", FALSE),
       HandleStep("work", FALSE), HandleStep("work", FALSE),
       HandleStep("close", FALSE), HandleStep("work", FALSE) >>

\* OCRExtractor.extract: Image.open, np.array(image) in _preprocess_image
\* (the image data is read), _perform_ocr, metadata and Document; no close
OcrSteps ==
    << HandleStep("open", FALSE), HandleStep("read", FALSE),
       HandleStep("work", FALSE), HandleStep("work", FALSE) >>

\* TextExtractor.extract: with open(...) as f: f.read(), then the parsing
TextSteps ==
    << HandleStep("open", FALSE), HandleStep("work", TRUE),
       HandleStep("close", FALSE), HandleStep("work", FALSE),
       HandleStep("work", FALSE) >>

\* BaseConverter.save: mkdir, convert(), with open(...) as f: f.write()
SaveSteps ==
    << HandleStep("work", FALSE), HandleStep("work", FALSE),
       HandleStep("open", FALSE), HandleStep("work", TRUE),
       HandleStep("close", FALSE) >>

\* DocxConverter.save: mkdir, convert(), with open(..., 'wb') as f: f.write()
DocxSaveSteps ==
    << HandleStep("work", FALSE), HandleStep("work", FALSE),
       HandleStep("open", FALSE), HandleStep("work", TRUE),
       HandleStep("close", FALSE) >>

HandleCalls ==
    {"PDFExtractor.extract", "XlsxExtractor.extract", "OCRExtractor.extract",
     "TextExtractor.extract", "BaseConverter.save", "DocxConverter.save"}

StepsOf(call) ==
    CASE call = "PDFExtractor.extract" -> PdfSteps
      [] call = "XlsxExtractor.extract" -> XlsxSteps
      [] call = "OCRExtractor.extract" -> OcrSteps
      [] call = "TextExtractor.extract" -> TextSteps
      [] call = "BaseConverter.save" -> SaveSteps
      [] call = "DocxConverter.save" -> DocxSaveSteps

InitHandles ==
    /\ AgentInit
    /\ input \in [call : HandleCalls, fault : 0..MaxSteps, lazy : BOOLEAN]
    /\ output = NotCalled

\* The call begins: no handle yet
BeginCall ==
    /\ output = NotCalled
    /\ output' = [called |-> TRUE, stage |-> "io", pc |-> 1, handle |-> "none",
                  status |-> "running"]
    /\ UNCHANGED <<input, agentVars>>

Running ==
    /\ output.called /\ output.stage = "io" /\ output.status = "running"
    /\ output.pc <= Len(StepsOf(input.call))

\* The next step completes
StepDone ==
    /\ Running
    /\ LET step == StepsOf(input.call)[output.pc] IN
       /\ output.pc # input.fault \/ step.do = "close"
       /\ output' = [output EXCEPT
              !.pc = @ + 1,
              !.handle = CASE step.do = "open" -> "open"
                           [] step.do = "read" ->
                                 IF input.lazy THEN "open" ELSE "closed"
                           [] step.do = "close" ->
                                 IF @ = "none" THEN "none" ELSE "closed"
                           [] OTHER -> @]
    /\ UNCHANGED <<input, agentVars>>

\* The next step raises: the exception leaves the call, through the with
\* or finally around the step if there is one
StepRaises ==
    /\ Running
    /\ LET step == StepsOf(input.call)[output.pc] IN
       /\ output.pc = input.fault /\ step.do # "close"
       /\ output' = [output EXCEPT
              !.status = "raised",
              !.handle = IF step.guarded /\ @ = "open" THEN "closed" ELSE @]
    /\ UNCHANGED <<input, agentVars>>

\* The call returns after its last step
ReturnCall ==
    /\ output.called /\ output.stage = "io" /\ output.status = "running"
    /\ output.pc > Len(StepsOf(input.call))
    /\ output' = [output EXCEPT !.status = "returned"]
    /\ UNCHANGED <<input, agentVars>>

NextHandles == BeginCall \/ StepDone \/ StepRaises \/ ReturnCall

SpecHandles == InitHandles /\ [][NextHandles]_vars

\* C17: when extract or save has returned or has been left by an
\* exception, the file handle it opened is closed.
C17_HandlesClosed ==
    (/\ output.called /\ output.stage = "io"
     /\ output.status \in {"returned", "raised"}) =>
        output.handle # "open"

\* The same for the calls that open the file in a with block or close it in
\* a finally: PDF and text extraction and both save methods.
ScopedHandlesClosed ==
    (/\ output.called /\ output.stage = "io"
     /\ output.status \in {"returned", "raised"}
     /\ input.call \notin {"XlsxExtractor.extract", "OCRExtractor.extract"}) =>
        output.handle # "open"

---------------------------------------------------------------------------
(* Specification SpecPages: a Document made by from_dict out of pages with  *)
(* the page numbers of input, then grown by add_page calls.                 *)

InitPages ==
    /\ AgentInit
    /\ input \in SeqsUpTo(0..MaxPageNumber, MaxPages - 1)
    /\ output = NotCalled

\* Document.from_dict({"pages": [{"page_number": n}, ...]})
FromDictPages ==
    /\ output = NotCalled
    /\ LET loaded == from_dict([pages |-> [i \in DOMAIN input |->
                                              [page_number |-> input[i]]]])
       IN  output' = IF loaded.ok
                     THEN [called |-> TRUE, stage |-> "pages", ok |-> TRUE,
                           document |-> loaded.value]
                     ELSE [called |-> TRUE, stage |-> "pages", ok |-> FALSE]
    /\ UNCHANGED <<input, agentVars>>

\* document.add_page(Page(page_number=n)); Page(...) itself refuses n < 1
AddPage(n) ==
    /\ output.called /\ output.stage = "pages" /\ output.ok
    /\ Len(output.document.pages) < MaxPages
    /\ LET page == Validate("Page", [page_number |-> n]) IN
       /\ page.ok
       /\ output' = [output EXCEPT !.document = add_page(@, page.value)]
    /\ UNCHANGED <<input, agentVars>>

NextPages == FromDictPages \/ \E n \in 0..MaxPageNumber : AddPage(n)

SpecPages == InitPages /\ [][NextPages]_vars

\* C18: the page numbers of a Document are 1..n in order for its n pages,
\* so that get_page(k) is the k-th page.
C18_PageNumbers ==
    (output.called /\ output.stage = "pages" /\ output.ok) =>
        \A k \in DOMAIN output.document.pages :
            /\ output.document.pages[k].page_number = k
            /\ get_page(output.document, k) = Some(output.document.pages[k])

\* What the schema does enforce: every page number is at least 1, and
\* get_page(k) is a page numbered k whenever there is one.
PageNumbersPositive ==
    (output.called /\ output.stage = "pages" /\ output.ok) =>
        /\ \A k \in DOMAIN output.document.pages :
              output.document.pages[k].page_number >= 1
        /\ \A n \in 1..MaxPageNumber :
              LET page == get_page(output.document, n) IN
              IF \E k \in DOMAIN output.document.pages :
                     output.document.pages[k].page_number = n
              THEN page # None /\ page[1].page_number = n
              ELSE page = None

---------------------------------------------------------------------------
(* Specification SpecTableCounts: a TableBlock constructed from rows of the *)
(* shape input.shape with the counts input.row_count and                    *)
(* input.column_count, by its constructor and inside Document.from_dict.    *)

TableShapes == SeqsUpTo(0..MaxRowCells, MaxTableRows - 1)

TableDict(shape, row_count, column_count) ==
    [rows |-> [i \in DOMAIN shape |->
                  [cells |-> [j \in 1..shape[i] |-> [content |-> <<"a">>]]]],
     row_count |-> row_count,
     column_count |-> column_count]

InitTableCounts ==
    /\ AgentInit
    /\ input \in [shape : TableShapes,
                  row_count : -1..MaxTableRows - 1,
                  column_count : -1..MaxRowCells]
    /\ output = NotCalled

\* TableBlock(rows=..., row_count=..., column_count=...)
ConstructTable ==
    /\ output = NotCalled
    /\ LET made == Validate("TableBlock",
                       TableDict(input.shape, input.row_count, input.column_count))
       IN  output' = IF made.ok
                     THEN [called |-> TRUE, stage |-> "table_counts",
                           ok |-> TRUE, block |-> made.value]
                     ELSE [called |-> TRUE, stage |-> "table_counts",
                           ok |-> FALSE]
    /\ UNCHANGED <<input, agentVars>>

\* Document.from_dict of one page whose only block is the table's dictionary
TableFromDict ==
    /\ output = NotCalled
    /\ LET table == TableDict(input.shape, input.row_count, input.column_count)
                        @@ [type |-> "table"]
           loaded == from_dict([pages |-> << [page_number |-> 1,
                                              blocks |-> <<table>>] >>])
       IN  output' = IF loaded.ok
                     THEN [called |-> TRUE, stage |-> "table_counts",
                           ok |-> TRUE, block |-> loaded.value.pages[1].blocks[1]]
                     ELSE [called |-> TRUE, stage |-> "table_counts",
                           ok |-> FALSE]
    /\ UNCHANGED <<input, agentVars>>

NextTableCounts == ConstructTable \/ TableFromDict

SpecTableCounts == InitTableCounts /\ [][NextTableCounts]_vars

AcceptedTable ==
    /\ output.called /\ output.stage = "table_counts" /\ output.ok
    /\ output.block.cls = "TableBlock"

\* C19: a TableBlock that construction accepts has row_count equal to the
\* number of its rows and column_count equal to the number of cells of its
\* rows; any other is rejected.
C19_TableCounts ==
    AcceptedTable =>
        /\ output.block.row_count = Len(output.block.rows)
        /\ \A i \in DOMAIN output.block.rows :
              output.block.column_count = Len(output.block.rows[i].cells)

\* What the schema does enforce: neither count is negative, and the rows are
\* the rows given.
TableCountsNotNegative ==
    AcceptedTable =>
        /\ output.block.row_count >= 0
        /\ output.block.column_count >= 0
        /\ Len(output.block.rows) = Len(input.shape)

---------------------------------------------------------------------------
(* Specification SpecAgents: two DocumentAgent instances whose calls        *)
(* interleave.  document, source_path and result hold one value per agent,  *)
(* written is the one file system both work on.  input keeps, for each      *)
(* agent, the run of the same calls made by that agent alone at the same    *)
(* times on a file system of its own.                                       *)

Agents == {1, 2}

\* self._document = None; self._source_path = None
DocumentAgent_init ==
    [document |-> NoDocument, source_path |-> None, result |-> NotCalled]

\* An assignment to an instance attribute: the attribute of self only
Assign_class_attribute(attribute, self, value) ==
    [a \in DOMAIN attribute |-> value]

Assign(attribute, self, value) == [attribute EXCEPT ![self] = value]

\* The characters of a token of the Markdown converter's output
Spell(token) ==
    CASE token = "# " -> <<"#", " ">>
      [] token = "## " -> <<"#", "#", " ">>
      [] token = "## Page " -> <<"#", "#", " ", "P", "a", "g", "e", " ">>
      [] token = "- " -> <<"-", " ">>
      [] token = ". " -> <<".", " ">>
      [] token = ", " -> <<",", " ">>
      [] token = "| " -> <<"|", " ">>
      [] token = " |" -> <<" ", "|">>
      [] token = " | " -> <<" ", "|", " ">>
      [] token = "](" -> <<"]", "(">>
      [] token = "![" -> <<"!", "[">>
      [] token = "**" -> <<"*", "*">>
      [] token = "***" -> <<"*", "*", "*">>
      [] token = "---" -> <<"-", "-", "-">>
      [] token = "rtl" -> <<"r", "t", "l">>
      [] token = "image_" -> <<"i", "m", "a", "g", "e", "_">>
      [] token = "dir: rtl" -> <<"d", "i", "r", ":", " ", "r", "t", "l">>
      [] token = "title: \"" -> <<"t", "i", "t", "l", "e", ":", " ", "\"">>
      [] token = "author: \"" -> <<"a", "u", "t", "h", "o", "r", ":", " ", "\"">>
      [] token = "date: \"" -> <<"d", "a", "t", "e", ":", " ", "\"">>
      [] token = "keywords: \"" ->
            <<"k", "e", "y", "w", "o", "r", "d", "s", ":", " ", "\"">>
      [] token = "description: \"" ->
            <<"d", "e", "s", "c", "r", "i", "p", "t", "i", "o", "n", ":", " ", "\"">>
      [] token = "source_format: \"" ->
            <<"s", "o", "u", "r", "c", "e", "_", "f", "o", "r", "m", "a", "t",
              ":", " ", "\"">>
      [] token = "<div dir=\"" -> <<"<", "d", "i", "v", " ", "d", "i", "r", "=", "\"">>
      [] token = "</div>" -> <<"<", "/", "d", "i", "v", ">">>
      [] OTHER -> <<token>>

\* f.write(content) and f.read(): the text of the file save() has written
FileText(content) ==
    Concat([i \in DOMAIN content.markdown |-> Spell(content.markdown[i])])

\* The files there are before any call
SourceFiles == [path \in {"a.pdf"} |-> [format |-> "source"]]

\* extractor_class(file_path).extract() on the file system fs
ExtractIn(fs, path) ==
    IF fs[path].format = "source" THEN Extract(path)
    ELSE [ok |-> TRUE,
          document |-> TextExtractor_extract(FileText(fs[path]),
                                             <<"o", "u", "t">>, <<"m">>)]

LoadCheckIn(fs, file_path) ==
    IF file_path \notin DOMAIN fs
    THEN Some([type |-> "FileNotFoundError", message |-> "File not found",
               path |-> file_path])
    ELSE IF Lower(Suffix(file_path)) \notin DOMAIN EXTRACTOR_MAP
    THEN Some([type |-> "ValueError", message |-> "Unsupported file type",
               ext |-> Lower(Suffix(file_path)), supported |-> EXTRACTOR_KEYS])
    ELSE None

DocumentAgent_load(self, fs, file_path) ==
    LET args == [file_path |-> file_path]
        refused == LoadCheckIn(fs, file_path)
        extracted == ExtractIn(fs, file_path)
    IN  IF refused # None
        THEN [self EXCEPT !.result = Raise("load", args, refused[1])]
        ELSE IF ~extracted.ok
        THEN [self EXCEPT !.result = Raise("load", args, extracted.error)]
        ELSE [document |-> [loaded |-> TRUE, doc |-> extracted.document],
              source_path |-> Some(file_path),
              result |-> Return("load", args, extracted.document)]

DocumentAgent_load_from_dict(self, data) ==
    LET args == [data |-> data]
        validated == FromDictOutcome[data]
    IN  IF validated.ok
        THEN [self EXCEPT !.document = [loaded |-> TRUE, doc |-> validated.value],
                          !.result = Return("load_from_dict", args,
                                            validated.value)]
        ELSE [self EXCEPT !.result = Raise("load_from_dict", args,
                                           ValidationError)]

\* export once the converter has run: the agent afterwards, and the file
\* system afterwards
Exported(self, fs, args, output_path, converted) ==
    IF ~converted.ok
    THEN [self |-> [self EXCEPT !.result =
                                    Raise("export", args, converted.error)],
          fs |-> fs]
    ELSE IF output_path # None /\ output_path[1] # ""
    THEN [self |-> [self EXCEPT !.result =
                                    Return("export", args, output_path[1])],
          fs |-> Save(fs, output_path[1], converted.content)]
    ELSE [self |-> [self EXCEPT !.result =
                                    Return("export", args, converted.content)],
          fs |-> fs]

DocumentAgent_export(self, fs, format, output_path, kwargs, now) ==
    LET args == [format |-> format, output_path |-> output_path,
                 kwargs |-> kwargs]
        refused == ExportCheck(self.document.loaded, format)
    IN  IF refused # None
        THEN [self |-> [self EXCEPT !.result = Raise("export", args, refused[1])],
              fs |-> fs]
        ELSE Exported(self, fs, args, output_path,
                      Convert(CONVERTER_MAP[Lower(format)], self.document.doc,
                              kwargs, now))

DocumentAgent_get_text(self) ==
    [self EXCEPT !.result =
        IF ~self.document.loaded THEN Raise("get_text", << >>, NoDocumentLoaded)
        ELSE Return("get_text", << >>, get_all_text(self.document.doc))]

DocumentAgent_set_title(self, title) ==
    LET args == [title |-> title] IN
    IF ~self.document.loaded
    THEN [self EXCEPT !.result = Raise("set_title", args, NoDocumentLoaded)]
    ELSE [self EXCEPT !.document.doc.title = Some(title),
                      !.document.doc.metadata.title = Some(title),
                      !.result = Return("set_title", args, None)]

DocumentAgent_set_direction(self, direction) ==
    LET args == [direction |-> direction] IN
    IF ~self.document.loaded
    THEN [self EXCEPT !.result = Raise("set_direction", args, NoDocumentLoaded)]
    ELSE IF direction \notin TextDirections
    THEN [self EXCEPT !.result =
             Raise("set_direction", args,
                   [type |-> "ValueError",
                    message |-> "not a valid TextDirection"])]
    ELSE [self EXCEPT !.document.doc.direction = direction,
                      !.result = Return("set_direction", args, None)]

DocumentAgent_query(self, op) ==
    [self EXCEPT !.result =
        IF ~self.document.loaded THEN Raise(op, << >>, NoDocumentLoaded)
        ELSE Return(op, << >>, Answer(op, self.document.doc))]

DocumentAgent_export_to_json(self, fs, output_path) ==
    LET args == [output_path |-> output_path] IN
    IF ~self.document.loaded
    THEN [self |-> [self EXCEPT !.result =
                        Raise("export_to_json", args, NoDocumentLoaded)],
          fs |-> fs]
    ELSE IF output_path # None /\ output_path[1] # ""
    THEN [self |-> [self EXCEPT !.result =
                        Return("export_to_json", args, output_path[1])],
          fs |-> Save(fs, output_path[1],
                      [format |-> "json", json |-> to_json(self.document.doc)])]
    ELSE [self |-> [self EXCEPT !.result =
                        Return("export_to_json", args,
                               [format |-> "json",
                                json |-> to_json(self.document.doc)])],
          fs |-> fs]

\* The calls the agents make
AgentCalls ==
    [op : {"load"}, file_path : {"a.pdf", "gone.pdf", "out.txt"}]
    \cup [op : {"load_from_dict"}, data : {Dump(JsonDocument)}]
    \cup [op : {"export"}, format : {"markdown"},
          output_path : {None, Some("out.txt")},
          kwargs : {[include_frontmatter |-> FALSE]}]
    \cup [op : {"get_text"}]
    \cup [op : {"set_title"}, title : NewTitles]
    \cup [op : {"set_direction"}, direction : {"rtl"}]

\* One call on the agent self over the file system fs at the time now
DocumentAgent_call(self, fs, call, now) ==
    CASE call.op = "load" ->
            [self |-> DocumentAgent_load(self, fs, call.file_path), fs |-> fs]
      [] call.op = "load_from_dict" ->
            [self |-> DocumentAgent_load_from_dict(self, call.data), fs |-> fs]
      [] call.op = "export" ->
            DocumentAgent_export(self, fs, call.format, call.output_path,
                                 call.kwargs, now)
      [] call.op = "get_text" ->
            [self |-> DocumentAgent_get_text(self), fs |-> fs]
      [] call.op \in QueryOps \ {"get_text"} ->
            [self |-> DocumentAgent_query(self, call.op), fs |-> fs]
      [] call.op = "export_to_json" ->
            DocumentAgent_export_to_json(self, fs, call.output_path)
      [] call.op = "set_title" ->
            [self |-> DocumentAgent_set_title(self, call.title), fs |-> fs]
      [] call.op = "set_direction" ->
            [self |-> DocumentAgent_set_direction(self, call.direction),
             fs |-> fs]

\* What a load of path would read in fs
FileView(fs, path) == IF path \in DOMAIN fs THEN Some(fs[path]) ELSE None

InitAgents ==
    /\ document = [a \in Agents |-> DocumentAgent_init.document]
    /\ source_path = [a \in Agents |-> DocumentAgent_init.source_path]
    /\ result = [a \in Agents |-> DocumentAgent_init.result]
    /\ written = SourceFiles
    /\ clock = 0
    /\ input = [a \in Agents |-> [self |-> DocumentAgent_init,
                                   fs |-> SourceFiles, foreign |-> FALSE]]
    /\ output = [called |-> FALSE, calls |-> 0]

\* The state after the call of agent a that leaves shared on the shared
\* file system, and alone when a runs by itself
Called(a, call, shared, alone) ==
    /\ document' = Assign(document, a, shared.self.document)
    /\ source_path' = Assign(source_path, a, shared.self.source_path)
    /\ result' = Assign(result, a, shared.self.result)
    /\ written' = shared.fs
    /\ input' = [input EXCEPT ![a] =
                    [self |-> alone.self, fs |-> alone.fs,
                     foreign |-> \/ input[a].foreign
                                 \/ /\ call.op = "load"
                                    /\ FileView(written, call.file_path)
                                         # FileView(input[a].fs, call.file_path)]]
    /\ output' = [called |-> TRUE, stage |-> "agents", self |-> a,
                  op |-> call.op, calls |-> output.calls + 1]
    /\ UNCHANGED clock

\* The agent a makes the call: on the shared file system, and alone
AgentCall(a, call) ==
    /\ output.calls < MaxCalls
    /\ Called(a, call,
              DocumentAgent_call([document |-> document[a],
                                  source_path |-> source_path[a],
                                  result |-> result[a]], written, call, clock),
              DocumentAgent_call(input[a].self, input[a].fs, call, clock))

NextAgents == \E a \in Agents, call \in AgentCalls : AgentCall(a, call)

SpecAgents == InitAgents /\ [][NextAgents]_vars

AsAlone(a) ==
    /\ document[a] = input[a].self.document
    /\ source_path[a] = input[a].self.source_path
    /\ result[a] = input[a].self.result

---------------------------------------------------------------------------
(* Specification SpecImageFailure: the DOCX export of documents whose image *)
(* blocks carry payloads that decode to a picture, decode to bytes that are *)
(* no picture, or do not decode at all.                                     *)

ImagePayloads ==
    { <<PictureB64>>, <<BytesB64>>, <<"x">>,
      <<"data:", "image/png", ";base64", ",", PictureB64>>,
      <<"data:", "image/png", ";base64", ",", BytesB64>>,
      <<"data:", "image/png", ";base64", ",", "x">>,
      <<"data:", "x">> }

FailureBlockPool ==
    { New("ImageBlock", [image_id |-> <<"i">>, image_data |-> Some(data),
                         caption |-> caption])
        : data \in ImagePayloads, caption \in {None, Some(<<"c">>)} }
    \cup { New("ParagraphBlock", [text |-> <<"a">>]) }

InitImageFailure ==
    /\ AgentInit
    /\ input \in [blocks : SeqsUpTo(FailureBlockPool, MaxBlocks),
                  embed_images : BOOLEAN]
    /\ output = NotCalled

\* export('docx', embed_images=...) of the document with these blocks
ExportImages ==
    /\ output = NotCalled
    /\ output' = [called |-> TRUE, stage |-> "docx_image",
                  converted |-> Convert("DocxConverter",
                      New("Document", [pages |-> <<PageOf(1, input.blocks)>>]),
                      [embed_images |-> input.embed_images], 0)]
    /\ UNCHANGED <<input, agentVars>>

NextImageFailure == ExportImages

SpecImageFailure == InitImageFailure /\ [][NextImageFailure]_vars

\* The payload of the image as the converter takes it: after the comma of a
\* data URL, else the whole text
PayloadOf(data) ==
    IF Head(data) = "data:"
    THEN (IF Len(data) >= 5 THEN <<data[5]>> ELSE << >>)
    ELSE data

\* Rendering the block fails: its payload cannot be decoded, or what it
\* decodes to cannot be inserted as a picture
RenderingFails(block) ==
    /\ block.cls = "ImageBlock"
    /\ PayloadOf(block.image_data[1]) # <<PictureB64>>

\* C21: when rendering one of the blocks fails, the export raises and
\* returns no content.
C21_FailureAborts ==
    (/\ output.called /\ output.stage = "docx_image"
     /\ input.embed_images
     /\ \E i \in DOMAIN input.blocks : RenderingFails(input.blocks[i]))
        => ~output.converted.ok

\* What the converter does: only a data URL whose payload is missing or is
\* no base64 ends the export; every other image failure is passed over.
DataUrlFailureAborts ==
    (output.called /\ output.stage = "docx_image") =>
        (~output.converted.ok <=>
            /\ input.embed_images
            /\ \E i \in DOMAIN input.blocks :
                  /\ input.blocks[i].cls = "ImageBlock"
                  /\ Head(input.blocks[i].image_data[1]) = "data:"
                  /\ PayloadOf(input.blocks[i].image_data[1])
                        \notin {<<PictureB64>>, <<BytesB64>>})

---------------------------------------------------------------------------
(* Specification SpecFrame: one agent whose calls are remembered.  input is *)
(* the first query or export made since the document last changed, with    *)
(* what it returned; output is the last call and the document it found.     *)

ChangingCalls ==
    [op : {"load"}, file_path : {"a.pdf"}]
    \cup [op : {"load_from_dict"}, data : {Dump(JsonDocument)}]
    \cup [op : {"set_title"}, title : NewTitles]
    \cup [op : {"set_direction"}, direction : {"rtl"}]

ReadingCalls ==
    [op : QueryOps]
    \cup [op : {"export"}, format : {"html", "docx", "markdown"},
          output_path : {None}, kwargs : {<< >>}]
    \cup [op : {"export_to_json"}, output_path : {None}]

InitFrame ==
    /\ document = DocumentAgent_init.document
    /\ source_path = DocumentAgent_init.source_path
    /\ result = DocumentAgent_init.result
    /\ written = SourceFiles
    /\ clock = 0
    /\ input = NotCalled
    /\ output = NotCalled

\* The agent after the call that leaves next
FrameCalled(call, next, remembered) ==
    /\ document' = next.self.document
    /\ source_path' = next.self.source_path
    /\ result' = next.self.result
    /\ written' = next.fs
    /\ input' = remembered
    /\ output' = [called |-> TRUE, stage |-> "frame", call |-> call,
                  before |-> document]
    /\ UNCHANGED clock

FrameSelf == [document |-> document, source_path |-> source_path,
              result |-> result]

\* load, load_from_dict, set_title or set_direction
FrameChange(call) ==
    FrameCalled(call, DocumentAgent_call(FrameSelf, written, call, clock),
                NotCalled)

\* What is remembered after the call has left result: the call and its
\* result when nothing was remembered yet
Remembered(call, next) ==
    IF input.called THEN input
    ELSE [called |-> TRUE, call |-> call, result |-> next.self.result]

\* a query or an export
FrameRead(call) ==
    FrameCalled(call, DocumentAgent_call(FrameSelf, written, call, clock),
                Remembered(call,
                           DocumentAgent_call(FrameSelf, written, call, clock)))

FrameTick ==
    /\ clock < MaxClock
    /\ clock' = clock + 1
    /\ UNCHANGED <<document, source_path, written, result, input, output>>

NextFrame ==
    \/ \E call \in ChangingCalls : FrameChange(call)
    \/ \E call \in ReadingCalls : FrameRead(call)
    \/ FrameTick

SpecFrame == InitFrame /\ [][NextFrame]_vars

AfterRead ==
    /\ output.called /\ output.stage = "frame"
    /\ output.call \in ReadingCalls

\* C22: a query or an export leaves the document as it found it, and
\* returns what the same call returned when it was first made since the
\* document last changed, whatever queries and exports came in between.
C22_ReadsLeaveDocument ==
    AfterRead =>
        /\ document = output.before
        /\ (input.call = output.call => result = input.result)

\* The queries and exports leave the document as they found it.
ReadsKeepDocument == AfterRead => document = output.before

\* Apart from the DOCX export, a repeated query or export returns what it
\* returned the first time.
RepeatedReadsAgree ==
    (/\ AfterRead
     /\ input.call = output.call
     /\ ~(output.call.op = "export" /\ output.call.format = "docx"))
        => result = input.result

---------------------------------------------------------------------------
(* Specification SpecSplice: the HTML of a heading or paragraph whose       *)
(* inline links carry offsets into its text, in either list order.          *)

SpliceTexts == SeqsUpTo({"a", "b", "&"}, MaxTextLen) \ {<< >>}

\* The links of input: link k covers the characters [start, end) of the text
SpliceLink(range, name) ==
    New("Link", [text |-> <<name>>, url |-> <<"u">>,
                 start_index |-> Some(range[1]), end_index |-> Some(range[2])])

SpliceRanges(text) ==
    {r \in (0..Len(text)) \X (0..Len(text)) : r[1] < r[2]}

SpliceInputs ==
    UNION { [text : {text}, heading : BOOLEAN,
             links : {<< >>}
                     \cup {<<SpliceLink(r, "x")>> : r \in SpliceRanges(text)}
                     \cup {<<SpliceLink(p[1], "x"), SpliceLink(p[2], "y")>> :
                             p \in {p \in SpliceRanges(text) \X SpliceRanges(text) :
                                      \/ p[2][2] <= p[1][1]
                                      \/ p[1][2] <= p[2][1]}}]
            : text \in SpliceTexts }

InitSplice ==
    /\ AgentInit
    /\ input \in SpliceInputs
    /\ output = NotCalled

\* _convert_heading or _convert_paragraph of the block with that text and
\* those links
ConvertSpliced ==
    /\ output = NotCalled
    /\ output' = [called |-> TRUE, stage |-> "splice",
                  html |-> IF input.heading
                           THEN HTML_convert_heading(
                                    New("HeadingBlock",
                                        [level |-> 1, text |-> input.text,
                                         links |-> input.links]))
                           ELSE HTML_convert_paragraph(
                                    New("ParagraphBlock",
                                        [text |-> input.text,
                                         links |-> input.links]))]
    /\ UNCHANGED <<input, agentVars>>

NextSplice == ConvertSpliced

SpecSplice == InitSplice /\ [][NextSplice]_vars

\* The text from offset i on, every range replaced by the anchor of its
\* link and every other character escaped
RECURSIVE SplicedFrom(_, _, _)
SplicedFrom(text, links, i) ==
    IF i >= Len(text) THEN << >>
    ELSE LET here == {k \in DOMAIN links : links[k].start_index[1] = i} IN
         IF here = {}
         THEN D(HTML_escape_html(<<text[i + 1]>>)) \o SplicedFrom(text, links, i + 1)
         ELSE LET link == links[CHOOSE k \in here : TRUE] IN
              HTML_anchor(link.url, link.text)
              \o SplicedFrom(text, links, link.end_index[1])

SplicedBlock(heading, body) ==
    IF heading
    THEN L(<<"<h", "1">>) \o L(<<">">>) \o body \o L(<<"</h", "1", ">">>)
    ELSE L(<<"<p">>) \o L(<<">">>) \o body \o L(<<"</p>">>)

\* C23: the HTML of the block is its text with each range
\* [start_index, end_index) replaced by the anchor of its link and every
\* character outside the ranges escaped, whatever the characters of the
\* text and the order of the links.
C23_AnchorsReplaceRanges ==
    (output.called /\ output.stage = "splice") =>
        output.html = SplicedBlock(input.heading,
                                   SplicedFrom(input.text, input.links, 0))

Ascending(links) ==
    \A j, k \in DOMAIN links :
        j < k => links[j].end_index[1] <= links[k].start_index[1]

\* The splice is right when no character before the end of the last range
\* needs escaping and the links are listed in ascending order of offset.
PlainAscendingSpliced ==
    (/\ output.called /\ output.stage = "splice"
     /\ Ascending(input.links)
     /\ \A i \in DOMAIN input.text :
            (\E k \in DOMAIN input.links : i <= input.links[k].end_index[1])
                => input.text[i] # "&")
        => output.html = SplicedBlock(input.heading,
                                      SplicedFrom(input.text, input.links, 0))

----------------------------------------------------------------------------
(* Specification SpecLinks: TextExtractor._parse_content on every file of   *)
(* at most MaxFileLines lines out of LinkLinePool, with or without a final  *)
(* line break.  The lines hold URLs after white space that clean_text       *)
(* removes and a www. that starts no URL; the lines of one paragraph give   *)
(* it several URLs.                                                         *)

LinkLinePool ==
    { << >>,
      <<"t">>,
      <<"w", "w", "w", ".", "a">>,
      <<" ", "h", "t", "t", "p", ":", "/", "/", "b">>,
      <<"x", " ", " ", "w", "w", "w", ".", "-">>,
      <<"w", "w", "w", ".", "%", "4", "f">>,
      <<"w", "w", "w", ".", " ", "x">> }

LinkFiles ==
    {Join(<<"\n">>, lines) \o tail :
        lines \in SeqsUpTo(LinkLinePool, MaxFileLines), tail \in {<< >>, <<"\n">>}}

InitLinks ==
    /\ AgentInit
    /\ input \in LinkFiles
    /\ output = NotCalled

ExtractLinks ==
    /\ output = NotCalled
    /\ output' = [called |-> TRUE, stage |-> "txt_links",
                  blocks |-> TXT_parse_content(input)]
    /\ UNCHANGED <<input, agentVars>>

NextLinks == ExtractLinks

SpecLinks == InitLinks /\ [][NextLinks]_vars

UrlStarts ==
    {<<"h", "t", "t", "p", "s", ":", "/", "/">>,
     <<"h", "t", "t", "p", ":", "/", "/">>,
     <<"w", "w", "w", ".">>}

\* The characters text[start:end] are one URL occurrence: they start as a
\* URL starts, hold no white space and end where white space or the end of
\* the text follows, and url is the occurrence, after https:// when the
\* occurrence starts with www.
IsOccurrence(text, start, end, url) ==
    LET occurrence == SubSeq(text, start + 1, end) IN
    /\ \E s \in UrlStarts : StartsWith(occurrence, s) /\ Len(occurrence) > Len(s)
    /\ \A i \in DOMAIN occurrence : occurrence[i] \notin Whitespace
    /\ end = Len(text) \/ text[end + 1] \in Whitespace
    /\ url = IF StartsWith(occurrence, <<"h", "t", "t", "p">>) THEN occurrence
             ELSE <<"h", "t", "t", "p", "s", ":", "/", "/">> \o occurrence

LinksWithin(text, links) ==
    /\ \A i \in DOMAIN links :
          /\ links[i].start_index # None /\ links[i].end_index # None
          /\ 0 <= links[i].start_index[1]
          /\ links[i].start_index[1] < links[i].end_index[1]
          /\ links[i].end_index[1] <= Len(text)
          /\ IsOccurrence(text, links[i].start_index[1], links[i].end_index[1],
                          links[i].url)
    /\ \A i \in 1..(Len(links) - 1) :
          links[i].end_index[1] <= links[i + 1].start_index[1]

\* C24: every inline link the plain-text extractor attaches to a
\* ParagraphBlock has 0 <= start_index < end_index <= len(text), the
\* characters text[start_index:end_index] of the block's final (cleaned)
\* text are exactly the URL occurrence the link was made from, and the
\* links of a block stand in ascending order and do not overlap.
C24_LinkOffsets ==
    (output.called /\ output.stage = "txt_links") =>
        \A i \in DOMAIN output.blocks :
            output.blocks[i].cls = "ParagraphBlock" =>
                LinksWithin(output.blocks[i].text, output.blocks[i].links)

\* A paragraph whose text cleaning shortened carries two links, the first
\* of them made from a www. occurrence that does not start the text.
C24_Witness ==
    /\ output.called /\ output.stage = "txt_links"
    /\ \E i \in DOMAIN output.blocks :
          /\ output.blocks[i].cls = "ParagraphBlock"
          /\ Len(output.blocks[i].links) = 2
          /\ output.blocks[i].links[1].start_index[1] > 0
          /\ Len(output.blocks[i].links[1].url)
                > output.blocks[i].links[1].end_index[1]
                    - output.blocks[i].links[1].start_index[1]
          /\ \E j \in 1..(Len(input) - 1) : input[j] = " " /\ input[j + 1] = " "

----------------------------------------------------------------------------
(* Specification SpecPdfHeading: PDFExtractor._extract_text_blocks on one   *)
(* text block of at most MaxBlockSpans spans.  The first span has any of    *)
(* the font sizes around the thresholds of the heading levels and is bold   *)
(* or not; a later span is small and plain or large and bold, and goes on   *)
(* in the same line or starts a new one.                                    *)

MaxBlockSpans == 2

SpanTexts ==
    { <<" ">>, <<"a", "b">>, <<"a", "b", "c">>, <<"a", "b", ".">>,
      <<"a", ".", ".">>, <<".", ".", ".">> }

FontSizes == {11, 12, 14, 16, 20, 24}

FirstSpans == [text : SpanTexts, size : FontSizes, bold : BOOLEAN]

LaterSpans ==
    [text : SpanTexts, style : {[size |-> 11, bold |-> FALSE],
                                [size |-> 20, bold |-> TRUE]},
     same_line : BOOLEAN]

\* The lines of the block whose spans are first and then later
RECURSIVE BlockLines(_, _)
BlockLines(lines, later) ==
    IF later = << >> THEN lines
    ELSE LET span == [text |-> Head(later).text, size |-> Head(later).style.size,
                      bold |-> Head(later).style.bold]
             n == Len(lines)
         IN  BlockLines(IF Head(later).same_line
                        THEN [lines EXCEPT ![n] = Append(lines[n], span)]
                        ELSE Append(lines, <<span>>),
                        Tail(later))

PdfHeadingInputs ==
    {[type |-> 0, lines |-> BlockLines(<< <<first>> >>, later)] :
        first \in FirstSpans, later \in SeqsUpTo(LaterSpans, MaxBlockSpans - 1)}

InitPdfHeading ==
    /\ AgentInit
    /\ input \in PdfHeadingInputs
    /\ output = NotCalled

ExtractTextBlock ==
    /\ output = NotCalled
    /\ output' = [called |-> TRUE, stage |-> "pdf_heading",
                  blocks |-> PDF_extract_text_blocks([text_blocks |-> <<input>>], 1)]
    /\ UNCHANGED <<input, agentVars>>

NextPdfHeading == ExtractTextBlock

SpecPdfHeading == InitPdfHeading /\ [][NextPdfHeading]_vars

\* What the claim reads off the text block: its cleaned text, the largest
\* font size of its spans and whether one of them is bold
BlockText(block) ==
    clean_text(Concat([l \in DOMAIN block.lines |->
                  Concat([k \in DOMAIN block.lines[l] |->
                             block.lines[l][k].text]) \o <<"\n">>]))

LevelOfSize(s) ==
    CASE s >= 24 -> 1
      [] s >= 20 /\ s < 24 -> 2
      [] s >= 16 /\ s < 20 -> 3
      [] s >= 14 /\ s < 16 -> 4
      [] s >= 12 /\ s < 14 -> 5
      [] s < 12 -> 6

\* The text block becomes one block: a HeadingBlock of the level of its
\* largest font size when candidate and (largest size >= 14 or bold), and a
\* ParagraphBlock otherwise; a block without text becomes none.
HeadingRule(block, blocks, candidate) ==
    LET text == BlockText(block)
        spans == Concat(block.lines)
        s == Largest({spans[k].size : k \in DOMAIN spans})
        bold == \E k \in DOMAIN spans : spans[k].bold
    IN  IF text = << >> THEN blocks = << >>
        ELSE /\ Len(blocks) = 1
             /\ blocks[1].text = text
             /\ IF candidate /\ (s >= 14 \/ bold)
                THEN blocks[1].cls = "HeadingBlock"
                        /\ blocks[1].level = LevelOfSize(s)
                ELSE blocks[1].cls = "ParagraphBlock"

NoLineBreak(text) == \A i \in DOMAIN text : text[i] # "\n"

\* C25: a PDF text block becomes a HeadingBlock exactly when its text is a
\* heading candidate (3 to 200 characters, no line break, not ending in a
\* single period) and its largest font size is at least 14 or one of its
\* runs is bold; the level follows from the largest font size s alone
\* (s >= 24: 1, s >= 20: 2, s >= 16: 3, s >= 14: 4, s >= 12: 5, else 6);
\* every other non-empty text block becomes a ParagraphBlock.
C25_HeadingRule ==
    (output.called /\ output.stage = "pdf_heading") =>
        LET text == BlockText(input)
            n == Len(text)
        IN  HeadingRule(input, output.blocks,
                        /\ n >= 3 /\ n <= 200
                        /\ NoLineBreak(text)
                        /\ ~(text[n] = "." /\ text[n - 1] # "."))

\* C25 with the candidate as the code has it: a text that ends in a period
\* is no candidate unless it ends in three periods.
C25_HeadingRuleEllipsis ==
    (output.called /\ output.stage = "pdf_heading") =>
        LET text == BlockText(input)
            n == Len(text)
        IN  HeadingRule(input, output.blocks,
                        /\ n >= 3 /\ n <= 200
                        /\ NoLineBreak(text)
                        /\ (text[n] = "." =>
                               SubSeq(text, n - 2, n) = <<".", ".", ".">>))

\* A bold block of font size 12 whose text ends in three periods became a
\* heading of level 5.
C25_Witness ==
    /\ output.called /\ output.stage = "pdf_heading"
    /\ Len(output.blocks) = 1
    /\ output.blocks[1].cls = "HeadingBlock"
    /\ output.blocks[1].level = 5
    /\ output.blocks[1].text[Len(output.blocks[1].text)] = "."

----------------------------------------------------------------------------
(* Specification SpecList: TextExtractor._parse_content on every paragraph  *)
(* of at most MaxListLines lines out of ListLinePool: lines with a bullet,  *)
(* a numeric and an alpha marker, a line without marker and a bullet line   *)
(* whose text starts with a digit.                                          *)

MaxListLines == 3

ListLinePool ==
    { <<"-", " ", "a">>, <<"1", ")", " ", "b">>, <<"a", ".", " ", "c">>,
      <<"x">>, <<"*", " ", "2", " ", "d">> }

ListParagraphs ==
    {Join(<<"\n">>, lines) : lines \in SeqsUpTo(ListLinePool, MaxListLines) \ {<< >>}}

InitList ==
    /\ AgentInit
    /\ input \in ListParagraphs
    /\ output = NotCalled

ExtractList ==
    /\ output = NotCalled
    /\ output' = [called |-> TRUE, stage |-> "txt_list",
                  blocks |-> TXT_parse_content(input)]
    /\ UNCHANGED <<input, agentVars>>

NextList == ExtractList

SpecList == InitList /\ [][NextList]_vars

HasMarker(line) ==
    MatchesBullet(line) \/ MatchesNumbered(line) \/ MatchesLettered(line)

\* The text of the line after its marker
WithoutMarker(line) ==
    LET r == SkipWhile(line, Whitespace) IN
    IF MatchesBullet(line) \/ MatchesLettered(line)
    THEN Strip(Tail(r), Whitespace)
    ELSE IF MatchesNumbered(line)
    THEN Strip(Tail(SkipWhile(r, Digits \cup {"AR_ONE"})), Whitespace)
    ELSE Strip(line, Whitespace)

\* The paragraph of several lines became a ListBlock exactly when at least
\* half of its lines start with a marker, ordered exactly when a line has a
\* numeric or an alpha marker.
ListKind(lines, blocks) ==
    /\ Len(blocks) = 1
    /\ blocks[1].cls = "ListBlock"
          <=> 2 * Cardinality({i \in DOMAIN lines : HasMarker(lines[i])})
                  >= Len(lines)
    /\ blocks[1].cls = "ListBlock" =>
          (blocks[1].is_ordered
              <=> \E i \in DOMAIN lines :
                      MatchesNumbered(lines[i]) \/ MatchesLettered(lines[i]))

\* C26: a paragraph of several lines (never a heading) becomes a ListBlock
\* if and only if at least half of its lines start with a bullet, a numeric
\* or an alpha marker; the list is ordered if and only if at least one line
\* has a numeric or an alpha marker; the items are the texts of the lines
\* with their markers removed, in the order of the lines.
C26_ListItems ==
    (output.called /\ output.stage = "txt_list" /\ ~NoLineBreak(input)) =>
        LET lines == SplitOn(input, {"\n"}) IN
        /\ ListKind(lines, output.blocks)
        /\ output.blocks[1].cls = "ListBlock" =>
              output.blocks[1].items
                  = [i \in DOMAIN lines |-> WithoutMarker(lines[i])]

\* The list is told from the paragraph and the ordered list from the
\* unordered one as C26 says.
ListKindAsStated ==
    (output.called /\ output.stage = "txt_list" /\ ~NoLineBreak(input)) =>
        ListKind(SplitOn(input, {"\n"}), output.blocks)

\* The items are as C26 says when no line has an alpha marker and no text
\* after a marker starts with a digit.
PlainItemsAsStated ==
    (/\ output.called /\ output.stage = "txt_list" /\ ~NoLineBreak(input)
     /\ Len(output.blocks) = 1 /\ output.blocks[1].cls = "ListBlock"
     /\ \A i \in DOMAIN SplitOn(input, {"\n"}) :
           LET line == SplitOn(input, {"\n"})[i] IN
           ~MatchesLettered(line) /\ Head(WithoutMarker(line)) \notin Digits)
        => output.blocks[1].items
              = [i \in DOMAIN SplitOn(input, {"\n"}) |->
                    WithoutMarker(SplitOn(input, {"\n"})[i])]

----------------------------------------------------------------------------
(* Specification SpecMdTitle: MarkdownExtractor.extract on every file of at *)
(* most MaxMdLines lines out of MdTitleLinePool, with or without a final    *)
(* line break: the fence of a front matter, a title line of the front       *)
(* matter, two headings of level 1 and a line of text.                      *)

MdTitleLinePool ==
    { <<"-", "-", "-">>,
      <<"T", "i", "t", "l", "e", ":", " ", "T">>,
      <<"#", " ", "H">>,
      <<"#", " ", "G">>,
      <<"a">> }

MdTitleFiles ==
    {Join(<<"\n">>, lines) \o tail :
        lines \in SeqsUpTo(MdTitleLinePool, MaxMdLines), tail \in {<< >>, <<"\n">>}}

InitMdTitle ==
    /\ AgentInit
    /\ input \in MdTitleFiles
    /\ output = NotCalled

ExtractMarkdown ==
    /\ output = NotCalled
    /\ output' = [called |-> TRUE, stage |-> "md_title",
                  document |-> MarkdownExtractor_extract(input, <<"f">>, <<"m">>,
                                                         MdImageIds)]
    /\ UNCHANGED <<input, agentVars>>

NextMdTitle == ExtractMarkdown

SpecMdTitle == InitMdTitle /\ [][NextMdTitle]_vars

FrontMatterTitle(content) ==
    MD_front_matter_get(content, <<"t", "i", "t", "l", "e">>)

\* The text of the first heading of level 1 among blocks, as Some(text), or
\* None
FirstHeading1(blocks) ==
    LET first == {i \in DOMAIN blocks :
                     blocks[i].cls = "HeadingBlock" /\ blocks[i].level = 1}
    IN  IF first = {} THEN None ELSE Some(blocks[Smallest(first)].text)

\* The blocks are those of the lines after the front matter.
NoFrontMatterBlock(content, blocks) ==
    blocks = MD_parse_lines(SplitOn(SubSeq(content, FrontMatterLen(content) + 1,
                                           Len(content)), {"\n"}),
                            1, MdImageIds)

\* C27: the title of the Document extracted from a Markdown file is the
\* title of the front matter when the front matter has one, otherwise the
\* text of the first heading of level 1 wherever it stands in the file,
\* otherwise the file name (its stem); the lines of the front matter
\* produce no block.
C27_Title ==
    (output.called /\ output.stage = "md_title") =>
        LET blocks == output.document.pages[1].blocks IN
        /\ output.document.title =
              IF FrontMatterTitle(input) # None
              THEN FrontMatterTitle(input)
              ELSE IF FirstHeading1(blocks) # None THEN FirstHeading1(blocks)
              ELSE Some(<<"f">>)
        /\ NoFrontMatterBlock(input, blocks)

\* The title of the Document never comes from the front matter: it is the
\* text of the first heading of level 1, or the stem of the file name; the
\* title of the front matter goes to the title of the metadata only.
TitleFromHeading ==
    (output.called /\ output.stage = "md_title") =>
        LET blocks == output.document.pages[1].blocks IN
        /\ output.document.title =
              IF FirstHeading1(blocks) # None THEN FirstHeading1(blocks)
              ELSE Some(<<"f">>)
        /\ FrontMatterTitle(input) # None =>
              output.document.metadata.title = FrontMatterTitle(input)
        /\ NoFrontMatterBlock(input, blocks)

----------------------------------------------------------------------------
(* src/extractors/xlsx_extractor.py: _extract_table.  A worksheet is the    *)
(* sequence of its rows from row 1 to max_row, a row the sequence of the    *)
(* values of its cells from column 1 to max_column: None for a cell without *)
(* value, Some(text) for a cell whose value prints as text.                 *)

XLSX_ROW_CAP == 1000

XLSX_row(row, row_index) ==
    New("TableRow",
        [cells |-> [c \in DOMAIN row |->
                       New("TableCell",
                           [content |-> IF row[c] # None THEN clean_text(row[c][1])
                                        ELSE << >>,
                            is_header |-> (row_index = 0)])],
         is_header_row |-> (row_index = 0)])

XLSX_table(rows, sheet_num) ==
    IF rows = << >> THEN None
    ELSE Some(New("TableBlock",
                  [rows |-> rows, has_header |-> TRUE, row_count |-> Len(rows),
                   column_count |-> Len(rows[1].cells),
                   position_hint |-> Some(<<"sheet_", ToString(sheet_num)>>)]))

\* The rows of iter_rows(min_row=1, max_row=min(max_row, 1000)) that have a
\* cell with a value, each with the flags of its worksheet row (row_index
\* counts the worksheet rows from 0)
XLSX_extract_table(sheet, sheet_num) ==
    LET max_row == Len(sheet)
        last == IF max_row < XLSX_ROW_CAP THEN max_row ELSE XLSX_ROW_CAP
        has_content == SelectSeq([i \in 1..last |-> i],
                           LAMBDA i : \E c \in DOMAIN sheet[i] : sheet[i][c] # None)
    IN  IF max_row = 0 \/ Len(sheet[1]) = 0 THEN None
        ELSE XLSX_table([k \in DOMAIN has_content |->
                            XLSX_row(sheet[has_content[k]], has_content[k] - 1)],
                        sheet_num)

----------------------------------------------------------------------------
(* Specification SpecXlsxTable: XlsxExtractor._extract_table on every       *)
(* worksheet of at most MaxSheetRows rows and MaxRowCells columns whose     *)
(* cells are without value, hold a text or hold white space only, and on    *)
(* worksheets of more rows than the extractor reads.                        *)

MaxSheetRows == 3

CellValues == {None, Some(<<"a">>), Some(<<" ">>)}

TallSheets ==
    {[i \in 1..(XLSX_ROW_CAP + extra) |-> <<IF i = 1 THEN first ELSE Some(<<"a">>)>>] :
        extra \in {0, 1}, first \in {None, Some(<<"b">>)}}

Sheets ==
    UNION {SeqsUpTo([1..columns -> CellValues], MaxSheetRows) \ {<< >>} :
              columns \in 1..MaxRowCells}
        \cup TallSheets

InitXlsxTable ==
    /\ AgentInit
    /\ input \in Sheets
    /\ output = NotCalled

ExtractTable ==
    /\ output = NotCalled
    /\ output' = [called |-> TRUE, stage |-> "xlsx_table",
                  table |-> XLSX_extract_table(input, 1)]
    /\ UNCHANGED <<input, agentVars>>

NextXlsxTable == ExtractTable

SpecXlsxTable == InitXlsxTable /\ [][NextXlsxTable]_vars

\* C28: every TableBlock the XLSX extractor produces has no row whose cells
\* are all empty, has at most 1000 rows, and has its first row flagged as
\* header row with every cell of it flagged as header cell, also when
\* leading worksheet rows were dropped as empty.
C28_XlsxTable ==
    (output.called /\ output.stage = "xlsx_table" /\ output.table # None) =>
        LET rows == output.table[1].rows IN
        /\ \A r \in DOMAIN rows :
              \E c \in DOMAIN rows[r].cells : rows[r].cells[c].content # << >>
        /\ Len(rows) <= 1000
        /\ rows # << >>
        /\ rows[1].is_header_row
        /\ \A c \in DOMAIN rows[1].cells : rows[1].cells[c].is_header

\* What the table has of C28: at most 1000 rows, none of them from a
\* worksheet row without any value, and the header flags on its first row
\* exactly when worksheet row 1 has a value.
XlsxTableOfValues ==
    (output.called /\ output.stage = "xlsx_table" /\ output.table # None) =>
        LET rows == output.table[1].rows
            valued == {i \in DOMAIN input :
                          i <= 1000 /\ \E c \in DOMAIN input[i] : input[i][c] # None}
        IN  /\ Len(rows) = Cardinality(valued)
            /\ Len(rows) <= 1000
            /\ rows # << >>
            /\ rows[1].is_header_row <=> 1 \in valued
            /\ \A c \in DOMAIN rows[1].cells :
                  rows[1].cells[c].is_header <=> 1 \in valued
            /\ \A r \in 2..Len(rows) :
                  /\ ~rows[r].is_header_row
                  /\ \A c \in DOMAIN rows[r].cells : ~rows[r].cells[c].is_header

\* The table is as C28 says when worksheet row 1 has a value and no cell
\* holds white space only.
XlsxTableOfPlainSheet ==
    (/\ output.called /\ output.stage = "xlsx_table" /\ output.table # None
     /\ \E c \in DOMAIN input[1] : input[1][c] # None
     /\ \A i \in DOMAIN input : \A c \in DOMAIN input[i] :
           input[i][c] # Some(<<" ">>)) =>
        LET rows == output.table[1].rows IN
        /\ \A r \in DOMAIN rows :
              \E c \in DOMAIN rows[r].cells : rows[r].cells[c].content # << >>
        /\ Len(rows) <= 1000
        /\ rows[1].is_header_row
        /\ \A c \in DOMAIN rows[1].cells : rows[1].cells[c].is_header

----------------------------------------------------------------------------
(* Failed loads on an agent that holds a document, in specification Spec.   *)

FailedLoad(r) == r.called /\ r.op \in LoadOps /\ ~r.ok

\* C29: when load, load_from_json or load_from_dict fails (path missing,
\* extension not supported, error of the extractor or of the validation) on
\* an agent that holds a document, the agent holds the same document and
\* the same source path afterwards, and the query or export called next
\* reads that document.
C29_FailedLoadKeepsDocument ==
    [][/\ (document.loaded /\ clock' = clock /\ FailedLoad(result')) =>
             /\ document' = document
             /\ source_path' = source_path
       /\ (document.loaded /\ FailedLoad(result) /\ clock' = clock
              /\ result'.called /\ result'.op \in QueryOps) =>
             /\ result'.ok
             /\ result'.value = Answer(result'.op, document.doc)
             /\ document' = document
       /\ (document.loaded /\ FailedLoad(result) /\ clock' = clock
              /\ result'.called /\ result'.op = "export"
              /\ Lower(result'.args.format) \in DOMAIN CONVERTER_MAP
              /\ ~HasPath(result'.args.output_path)) =>
             /\ document' = document
             /\ result'.ok =>
                   result'.value =
                       Convert(CONVERTER_MAP[Lower(result'.args.format)],
                               document.doc, result'.args.kwargs, clock).content
       /\ (document.loaded /\ FailedLoad(result) /\ clock' = clock
              /\ result'.called /\ result'.op = "export_to_json"
              /\ ~HasPath(result'.args.output_path)) =>
             /\ result'.ok
             /\ result'.value.json = to_json(document.doc)
             /\ document' = document]_vars

\* load_from_dict failed with a validation error on an agent that holds the
\* document it loaded from a.pdf.
C29_Witness ==
    /\ document.loaded /\ source_path = Some("a.pdf")
    /\ document.doc = Extract("a.pdf").document
    /\ result.called /\ result.op = "load_from_dict" /\ ~result.ok
    /\ result.error = ValidationError

----------------------------------------------------------------------------
(* src/extractors/markdown_extractor.py: one iteration of the while loop of *)
(* _parse_content.  MD_step gives the branch taken at line i (from 1), the  *)
(* position next the loop goes on from, the blocks appended and the image   *)
(* ids left.                                                                *)

\* The last line of the loop body, without the i += 1
MD_blank_step_stays(i, image_ids) ==
    [branch |-> "blank", next |-> i, blocks |-> << >>, image_ids |-> image_ids]

\* The last line of the loop body: i += 1
MD_blank_step(i, image_ids) ==
    [branch |-> "blank", next |-> i + 1, blocks |-> << >>, image_ids |-> image_ids]

MD_heading_step(heading_match, text, i, image_ids) ==
    [branch |-> "heading", next |-> i + 1,
     blocks |-> IF text # << >>
                THEN << New("HeadingBlock",
                            [level |-> heading_match.level, text |-> text,
                             direction |-> detect_text_direction(text)]) >>
                ELSE << >>,
     image_ids |-> image_ids]

MD_list_step(line, items, end, image_ids) ==
    [branch |-> "list", next |-> end,
     blocks |-> IF items # << >>
                THEN << New("ListBlock",
                            [items |-> items, is_ordered |-> MatchesNumbered(line),
                             direction |-> detect_text_direction(
                                               Join(<<" ">>, items))]) >>
                ELSE << >>,
     image_ids |-> image_ids]

MD_paragraph_step(para_text, end, image_ids) ==
    [branch |-> "paragraph", next |-> end,
     blocks |-> IF para_text # << >>
                THEN << New("ParagraphBlock",
                            [text |-> para_text,
                             direction |-> detect_text_direction(para_text),
                             links |-> MD_extract_links(para_text)]) >>
                ELSE << >>,
     image_ids |-> image_ids]

MD_step(lines, i, image_ids) ==
    LET line == lines[i] IN
    IF MD_heading_match(line).ok
    THEN MD_heading_step(MD_heading_match(line),
                         clean_text(MD_heading_match(line).text), i, image_ids)
    ELSE IF MD_image_match(line).ok
    THEN [branch |-> "image", next |-> i + 1,
          blocks |-> << New("ImageBlock",
                            [image_id |-> Head(image_ids),
                             alt_text |-> Some(MD_image_match(line).first),
                             image_path |-> Some(MD_image_match(line).second),
                             caption |-> Some(MD_image_match(line).first)]) >>,
          image_ids |-> Tail(image_ids)]
    ELSE IF MD_link_match(line).ok
    THEN [branch |-> "link", next |-> i + 1,
          blocks |-> << New("LinkBlock", [text |-> MD_link_match(line).first,
                                          url |-> MD_link_match(line).second]) >>,
          image_ids |-> image_ids]
    ELSE IF MD_is_list_line(line)
    THEN MD_list_step(line,
                      MD_list_items(SubSeq(lines, i,
                                           RunEnd(lines, i, MD_is_list_line) - 1)),
                      RunEnd(lines, i, MD_is_list_line), image_ids)
    ELSE IF StartsWith(line, <<"|">>)
    THEN [branch |-> "table", next |-> RunEnd(lines, i, MD_is_table_line),
          blocks |-> parse_table(SubSeq(lines, i,
                                        RunEnd(lines, i, MD_is_table_line) - 1)),
          image_ids |-> image_ids]
    ELSE IF Strip(line, Whitespace) # << >>
    THEN MD_paragraph_step(
             clean_text(Join(<<"\n">>,
                 SubSeq(lines, i,
                        RunEnd(lines, i + 1, MD_continues_paragraph) - 1))),
             RunEnd(lines, i + 1, MD_continues_paragraph), image_ids)
    ELSE MD_blank_step(i, image_ids)

----------------------------------------------------------------------------
(* Specification SpecMdLoop: the while loop of _parse_content, iteration by *)
(* iteration, on every file of at most MaxLoopLines lines out of            *)
(* MdLoopLinePool.  The state of the loop is the lines, the position i      *)
(* (from 1), the blocks appended so far, each with the position its         *)
(* iteration started at, and the branches taken.  The extractor runs on     *)
(* without waiting for anything, so a step that can be made is made.        *)

MaxLoopLines == 3
MaxIterations == 6

MdLoopLinePool ==
    { << >>,
      <<"#", " ", "H">>,
      <<"!", "[", "a", "]", "(", "b", ")">>,
      <<"[", "a", "]", "(", "b", ")">>,
      <<"-", " ", "a">>,
      <<"|", "a", "|">>,
      <<"-">>,
      <<"a">> }

MdLoopImageIds == [i \in 1..MaxIterations |-> <<"i", "d", "AR_ONE">>]

MdLoopFiles ==
    {Join(<<"\n">>, lines) : lines \in SeqsUpTo(MdLoopLinePool, MaxLoopLines)}

\* Lines 84-86 on each of the files: the front matter is cut and the content
\* split into lines
MdLoopLines ==
    [content \in MdLoopFiles |->
        SplitOn(SubSeq(content, FrontMatterLen(content) + 1, Len(content)),
                {"\n"})]

\* MD_step on each of the files, at each of its lines, after each number of
\* image ids drawn before
MdLoopStep ==
    [content \in MdLoopFiles |->
        [i \in DOMAIN MdLoopLines[content] |->
            [drawn \in 0..(i - 1) |->
                MD_step(MdLoopLines[content], i,
                        SubSeq(MdLoopImageIds, drawn + 1, MaxIterations))]]]

InitMdLoop ==
    /\ AgentInit
    /\ input = [read |-> FALSE]
    /\ output = NotCalled

\* extract() reads the content of the file
ReadFile ==
    /\ ~input.read
    /\ \E content \in MdLoopFiles : input' = [read |-> TRUE, content |-> content]
    /\ UNCHANGED <<output, agentVars>>

\* Lines 82-87: the front matter is cut, the content split, i = 0
EnterLoop ==
    /\ input.read
    /\ output = NotCalled
    /\ output' = [called |-> TRUE, stage |-> "md_loop",
                  lines |-> MdLoopLines[input.content],
                  i |-> 1, blocks |-> << >>, starts |-> << >>,
                  branches |-> << >>, image_ids |-> MdLoopImageIds,
                  iterations |-> 0]
    /\ UNCHANGED <<input, agentVars>>

Iterated(loop, step) ==
    [loop EXCEPT !.i = step.next,
                 !.blocks = @ \o step.blocks,
                 !.starts = @ \o [k \in DOMAIN step.blocks |-> loop.i],
                 !.branches = Append(@, step.branch),
                 !.image_ids = step.image_ids,
                 !.iterations = @ + 1]

\* One iteration of while i < len(lines)
LoopIteration ==
    /\ output.called /\ output.stage = "md_loop"
    /\ output.i <= Len(output.lines)
    /\ output.iterations < MaxIterations
    /\ output' = Iterated(output,
                          MdLoopStep[input.content][output.i][
                              MaxIterations - Len(output.image_ids)])
    /\ UNCHANGED <<input, agentVars>>

NextMdLoop == ReadFile \/ EnterLoop \/ LoopIteration

SpecMdLoop == InitMdLoop /\ [][NextMdLoop]_vars /\ WF_vars(NextMdLoop)

LoopDone == output.called /\ output.stage = "md_loop" /\ output.i > Len(output.lines)

\* C30: the block parser of Markdown terminates on every input: every
\* iteration of its main loop, whichever branch it takes, moves on by at
\* least one line and past no more lines than there are, the blocks it
\* appends come after those appended before, so that the blocks stand in
\* the order of the lines they start at, and the loop comes to its end.
C30_LoopTerminates ==
    /\ [][(output.called /\ output'.called
              /\ output'.iterations = output.iterations + 1) =>
             /\ output'.i > output.i
             /\ output'.i <= Len(output.lines) + 1
             /\ SubSeq(output'.blocks, 1, Len(output.blocks)) = output.blocks
             /\ \A k \in 1..(Len(output'.starts) - 1) :
                   output'.starts[k] <= output'.starts[k + 1]
             /\ \A k \in DOMAIN output'.starts :
                   output.i <= output'.starts[k] => output'.starts[k] < output'.i]_vars
    /\ <>LoopDone

\* The loop never makes more iterations than there are lines, and at its
\* end the blocks are those of _parse_content.
LoopAsParser ==
    (output.called /\ output.stage = "md_loop") =>
        /\ output.iterations <= Len(output.lines)
        /\ LoopDone =>
              output.blocks = MD_parse_content(input.content, MdLoopImageIds)

\* The loop came to its end after a paragraph, a blank line and a list, with
\* a block for the paragraph and one for the list.
C30_Witness ==
    /\ LoopDone
    /\ output.branches = <<"paragraph", "blank", "list">>
    /\ output.starts = <<1, 3>>

============================================================================
